---- MODULE Spec2Model ----
(***************************************************************************)
(* Pyecobee object marshaller: Utilities.dictionary_to_object (decode),    *)
(* Utilities.object_to_dictionary (encode) and the class descriptors they  *)
(* are driven by.                                                          *)
(*                                                                         *)
(* Values.  A JSON / Python value is a record [k, v]:                      *)
(*   scalars  [k |-> "int", v |-> 0]   [k |-> "bool", v |-> TRUE]          *)
(*            [k |-> "str", v |-> "a"] [k |-> "float", v |-> "1.5"]        *)
(*            [k |-> "none", v |-> "None"]                                 *)
(*   list     [k |-> "list", v |-> <<value, ...>>]                         *)
(*   dict     [k |-> "dict", v |-> << <<key, value>>, ... >>]  (ordered)   *)
(*   object   [k |-> "obj", c |-> class, v |-> << <<slot, value>>, ... >>] *)
(* The text that dictionary_to_object generates is a sequence of tokens,   *)
(* one per string appended to response_properties.                         *)
(***************************************************************************)
EXTENDS Integers, Sequences, FiniteSets, TLC

\* ---------------------------------------------------------------- bounds
MaxLen == 2          \* longest list in a payload
MaxInt == 1          \* integers in payloads are 0..MaxInt

\* ------------------------------------------------------- scalar values
IntV(n) == [k |-> "int", v |-> n]
BoolV(b) == [k |-> "bool", v |-> b]
StrV(s) == [k |-> "str", v |-> s]
FloatV(s) == [k |-> "float", v |-> s]
NoneV == [k |-> "none", v |-> "None"]
ListV(s) == [k |-> "list", v |-> s]
DictV(s) == [k |-> "dict", v |-> s]
ObjV(cls, s) == [k |-> "obj", c |-> cls, v |-> s]
RaiseV(exc, arg) == [k |-> "raise", v |-> <<exc, arg>>]

IsScalar(x) == x.k \in {"int", "bool", "str", "float", "none"}

\* Python format(value): the text of a scalar
Format(x) ==
    CASE x.k = "int" -> ToString(x.v)
      [] x.k = "bool" -> IF x.v THEN "True" ELSE "False"
      [] OTHER -> x.v

\* Python bool(text): a string is true when it is not empty
PyBool(s) == s # ""

\* Python int(text): the integer whose decimal text is s
PyInt(s) == CHOOSE n \in 0..(MaxInt + 1) : ToString(n) = s

\* the strings that occur in payloads
PayloadStrings == {"", "a", "x", "123", "rs:100", "rs:101", "Kitchen"}

\* Python repr(value) of a scalar: the text '{!r}' formats it to
PyRepr(x) == IF x.k = "str" THEN "'" \o x.v \o "'" ELSE Format(x)

\* the value eval gives the text of a literal
PyLiteral(text) ==
    IF text = "True" THEN BoolV(TRUE)
    ELSE IF text = "False" THEN BoolV(FALSE)
    ELSE IF text = "None" THEN NoneV
    ELSE IF \E n \in 0..(MaxInt + 1) : ToString(n) = text THEN IntV(PyInt(text))
    ELSE IF \E q \in PayloadStrings : "'" \o q \o "'" = text
    THEN StrV(CHOOSE q \in PayloadStrings : "'" \o q \o "'" = text)
    ELSE FloatV(text)

\* -------------------------------------------------- module namespace
\* the classes imported into pyecobee.utilities, by name
ModuleNames ==
    {"Action", "Alert", "Audio", "Climate", "DemandManagement", "DemandResponse",
     "Device", "Electricity", "ElectricityDevice", "ElectricityTier", "Energy",
     "EquipmentSetting", "Event", "ExtendedRuntime", "Function", "GeneralSetting",
     "Group", "HierarchyPrivilege", "HierarchySet", "HierarchyUser", "HouseDetails",
     "LimitSetting", "Location", "Management", "MeterReport", "MeterReportData",
     "NotificationSettings", "Output", "Page", "Program", "Reminder", "RemoteSensor",
     "RemoteSensorCapability", "ReportJob", "Runtime", "RuntimeReport",
     "RuntimeSensorMetadata", "RuntimeSensorReport", "SecuritySettings", "Selection",
     "Sensor", "Settings", "State", "Status", "Technician", "Thermostat", "TimeOfUse",
     "User", "Utility", "Version", "VoiceEngine", "Weather", "WeatherForecast",
     "EcobeeAuthorizeResponse", "EcobeeCreateRuntimeReportJobResponse",
     "EcobeeErrorResponse", "EcobeeGroupsResponse", "EcobeeIssueDemandResponsesResponse",
     "EcobeeListDemandResponsesResponse", "EcobeeListHierarchySetsResponse",
     "EcobeeListHierarchyUsersResponse", "EcobeeListRuntimeReportJobStatusResponse",
     "EcobeeMeterReportsResponse", "EcobeeRuntimeReportsResponse", "EcobeeStatusResponse",
     "EcobeeThermostatResponse", "EcobeeThermostatsSummaryResponse", "EcobeeTokensResponse"}

\* Utilities._class_name_map
_class_name_map == ("tou" :> "TimeOfUse")

\* '{0}{1}'.format(key[:1].upper(), key[1:]) on the keys that occur
Capitalize(key) ==
    CASE key = "status" -> "Status"
      [] key = "code" -> "Code"
      [] key = "message" -> "Message"
      [] key = "identifier" -> "Identifier"
      [] key = "remoteSensors" -> "RemoteSensors"
      [] key = "id" -> "Id"
      [] key = "name" -> "Name"
      [] key = "revisionList" -> "RevisionList"
      [] key = "thermostatCount" -> "ThermostatCount"
      [] key = "statusList" -> "StatusList"
      [] key = "bogusField" -> "BogusField"
      [] key = "tou" -> "Tou"
      [] OTHER -> key

\* names in builtins or keyword.kwlist among the attribute names that occur
PyReserved == {"id", "type", "filter", "format", "range", "min", "max", "class", "from"}

\* ------------------------------------------------- class descriptors
\* declared types are the type string split into lexemes:
\* 'List[RemoteSensor]' is <<"List[", "RemoteSensor", "]">>
TText == <<"six.text_type">>
TInt == <<"int">>
TCls(n) == <<n>>
TList(t) == <<"List[">> \o t \o <<"]">>

\* class_name.find('List') != -1
HasList(t) == \E i \in 1..Len(t) : t[i] = "List["

\* class_name[:-1]: the slice keeps the 'List[' prefix
MutElementType(t) == SubSeq(t, 1, Len(t) - 1)

\* class_name[5:-1]
ElementType(t) == SubSeq(t, 2, Len(t) - 1)

\* getattr(sys.modules[__name__], name) succeeds
InModule(t) == Len(t) = 1 /\ t[1] \in ModuleNames

Param(n, s, r) == [n |-> n, slot |-> s, req |-> r]

EcobeeStatusResponse ==
    [slots |-> <<"_status">>,
     attribute_name_map |-> ("status" :> "status"),
     attribute_type_map |-> ("status" :> TCls("Status")),
     init |-> <<Param("status", "_status", TRUE)>>]

EcobeeThermostatsSummaryResponse ==
    [slots |-> <<"_revision_list", "_thermostat_count", "_status_list", "_status">>,
     attribute_name_map |->
        ("revision_list" :> "revisionList" @@ "revisionList" :> "revision_list" @@
         "thermostat_count" :> "thermostatCount" @@ "thermostatCount" :> "thermostat_count" @@
         "status_list" :> "statusList" @@ "statusList" :> "status_list" @@
         "status" :> "status"),
     attribute_type_map |->
        ("revision_list" :> TList(TText) @@ "thermostat_count" :> TInt @@
         "status_list" :> TList(TText) @@ "status" :> TCls("Status")),
     init |-> <<Param("revision_list", "_revision_list", TRUE),
                Param("thermostat_count", "_thermostat_count", TRUE),
                Param("status_list", "_status_list", TRUE),
                Param("status", "_status", TRUE)>>]

Status ==
    [slots |-> <<"_code", "_message">>,
     attribute_name_map |-> ("code" :> "code" @@ "message" :> "message"),
     attribute_type_map |-> ("code" :> TInt @@ "message" :> TText),
     init |-> <<Param("code", "_code", TRUE), Param("message", "_message", TRUE)>>]

Thermostat ==
    [slots |-> <<"_identifier", "_remote_sensors">>,
     attribute_name_map |->
        ("identifier" :> "identifier" @@
         "remote_sensors" :> "remoteSensors" @@ "remoteSensors" :> "remote_sensors"),
     attribute_type_map |->
        ("identifier" :> TText @@ "remote_sensors" :> TList(TCls("RemoteSensor"))),
     init |-> <<Param("identifier", "_identifier", FALSE),
                Param("remote_sensors", "_remote_sensors", FALSE)>>]

RemoteSensor ==
    [slots |-> <<"_id", "_name">>,
     attribute_name_map |-> ("id" :> "id" @@ "name" :> "name"),
     attribute_type_map |-> ("id" :> TText @@ "name" :> TText),
     init |-> <<Param("id_", "_id", FALSE), Param("name", "_name", FALSE)>>]

\* the classes whose descriptors are modelled
EcobeeErrorResponse ==
    [slots |-> <<"_error", "_error_description", "_error_uri">>,
     attribute_name_map |->
        ("error" :> "error" @@ "error_description" :> "error_description" @@
         "error_uri" :> "error_uri"),
     attribute_type_map |->
        ("error" :> TText @@ "error_description" :> TText @@ "error_uri" :> TText),
     init |-> <<Param("error", "_error", TRUE),
                Param("error_description", "_error_description", TRUE),
                Param("error_uri", "_error_uri", TRUE)>>]

EcobeeMeterReportsResponse ==
    [slots |-> <<"_report_list", "_status">>,
     attribute_name_map |->
        ("report_list" :> "reportList" @@ "reportList" :> "report_list" @@ "status" :> "status"),
     attribute_type_map |->
        ("report_list" :> TList(TCls("MeterReport")) @@ "status" :> TCls("Status")),
     init |-> <<Param("report_list", "_report_list", TRUE), Param("status", "_status", TRUE)>>]

EcobeeRuntimeReportsResponse ==
    [slots |-> <<"_start_date", "_start_interval", "_end_date", "_end_interval", "_columns",
                 "_report_list", "_sensor_list", "_status">>,
     attribute_name_map |->
        ("start_date" :> "startDate" @@ "startDate" :> "start_date" @@
         "start_interval" :> "startInterval" @@ "startInterval" :> "start_interval" @@
         "end_date" :> "endDate" @@ "endDate" :> "end_date" @@
         "end_interval" :> "endInterval" @@ "endInterval" :> "end_interval" @@
         "columns" :> "columns" @@
         "report_list" :> "reportList" @@ "reportList" :> "report_list" @@
         "sensor_list" :> "sensorList" @@ "sensorList" :> "sensor_list" @@
         "status" :> "status"),
     attribute_type_map |->
        ("start_date" :> TText @@ "start_interval" :> TInt @@ "end_date" :> TText @@
         "end_interval" :> TInt @@ "columns" :> TText @@
         "report_list" :> TList(TCls("RuntimeReport")) @@
         "sensor_list" :> TList(TCls("RuntimeSensorReport")) @@ "status" :> TCls("Status")),
     init |-> <<Param("start_date", "_start_date", TRUE),
                Param("start_interval", "_start_interval", TRUE),
                Param("end_date", "_end_date", TRUE),
                Param("end_interval", "_end_interval", TRUE),
                Param("columns", "_columns", TRUE),
                Param("report_list", "_report_list", TRUE),
                Param("sensor_list", "_sensor_list", TRUE),
                Param("status", "_status", TRUE)>>]

\* pyecobee.objects.selection.Selection, with its two required attributes
SelectionClass ==
    [slots |-> <<"_selection_type", "_selection_match">>,
     attribute_name_map |->
        ("selection_type" :> "selectionType" @@ "selectionType" :> "selection_type" @@
         "selection_match" :> "selectionMatch" @@ "selectionMatch" :> "selection_match"),
     attribute_type_map |-> ("selection_type" :> TText @@ "selection_match" :> TText),
     init |-> <<Param("selection_type", "_selection_type", TRUE),
                Param("selection_match", "_selection_match", TRUE)>>]

\* pyecobee.objects.function.Function
FunctionClass ==
    [slots |-> <<"_type", "_params">>,
     attribute_name_map |-> ("type" :> "type" @@ "params" :> "params"),
     attribute_type_map |-> ("type" :> TText @@ "params" :> TText),
     init |-> <<Param("type", "_type", TRUE), Param("params", "_params", TRUE)>>]

\* pyecobee.responses.EcobeeAuthorizeResponse
EcobeeAuthorizeResponse ==
    [slots |-> <<"_ecobee_pin", "_code", "_scope", "_expires_in", "_interval">>,
     attribute_name_map |->
        ("ecobee_pin" :> "ecobeePin" @@ "ecobeePin" :> "ecobee_pin" @@ "code" :> "code" @@
         "scope" :> "scope" @@ "expires_in" :> "expires_in" @@ "interval" :> "interval"),
     attribute_type_map |->
        ("ecobee_pin" :> TText @@ "code" :> TText @@ "scope" :> TText @@
         "expires_in" :> TInt @@ "interval" :> TInt),
     init |-> <<Param("ecobee_pin", "_ecobee_pin", TRUE), Param("code", "_code", TRUE),
                Param("scope", "_scope", TRUE), Param("expires_in", "_expires_in", TRUE),
                Param("interval", "_interval", TRUE)>>]

\* pyecobee.responses.EcobeeTokensResponse
EcobeeTokensResponse ==
    [slots |-> <<"_access_token", "_token_type", "_expires_in", "_refresh_token", "_scope">>,
     attribute_name_map |->
        ("access_token" :> "access_token" @@ "token_type" :> "token_type" @@
         "expires_in" :> "expires_in" @@ "refresh_token" :> "refresh_token" @@
         "scope" :> "scope"),
     attribute_type_map |->
        ("access_token" :> TText @@ "token_type" :> TText @@ "expires_in" :> TInt @@
         "refresh_token" :> TText @@ "scope" :> TText),
     init |-> <<Param("access_token", "_access_token", TRUE),
                Param("token_type", "_token_type", TRUE),
                Param("expires_in", "_expires_in", TRUE),
                Param("refresh_token", "_refresh_token", TRUE),
                Param("scope", "_scope", TRUE)>>]

Classes ==
    [Selection |-> SelectionClass,
     Function |-> FunctionClass,
     EcobeeAuthorizeResponse |-> EcobeeAuthorizeResponse,
     EcobeeTokensResponse |-> EcobeeTokensResponse,
     EcobeeStatusResponse |-> EcobeeStatusResponse,
     EcobeeErrorResponse |-> EcobeeErrorResponse,
     EcobeeMeterReportsResponse |-> EcobeeMeterReportsResponse,
     EcobeeRuntimeReportsResponse |-> EcobeeRuntimeReportsResponse,
     EcobeeThermostatsSummaryResponse |-> EcobeeThermostatsSummaryResponse,
     Status |-> Status,
     Thermostat |-> Thermostat,
     RemoteSensor |-> RemoteSensor]

ClassNames == DOMAIN Classes

\* attribute_name, the slot name with its underscore
MutStripUnderscore(slot) == slot

\* attribute_name[1:]
StripUnderscore(slot) ==
    CASE slot = "_status" -> "status"
      [] slot = "_revision_list" -> "revision_list"
      [] slot = "_thermostat_count" -> "thermostat_count"
      [] slot = "_status_list" -> "status_list"
      [] slot = "_code" -> "code"
      [] slot = "_message" -> "message"
      [] slot = "_identifier" -> "identifier"
      [] slot = "_remote_sensors" -> "remote_sensors"
      [] slot = "_id" -> "id"
      [] slot = "_name" -> "name"
      [] slot = "_error" -> "error"
      [] slot = "_error_description" -> "error_description"
      [] slot = "_error_uri" -> "error_uri"
      [] slot = "_report_list" -> "report_list"
      [] slot = "_sensor_list" -> "sensor_list"
      [] slot = "_start_date" -> "start_date"
      [] slot = "_start_interval" -> "start_interval"
      [] slot = "_end_date" -> "end_date"
      [] slot = "_end_interval" -> "end_interval"
      [] slot = "_columns" -> "columns"
      [] slot = "_selection_type" -> "selection_type"
      [] slot = "_selection_match" -> "selection_match"
      [] slot = "_type" -> "type"
      [] slot = "_params" -> "params"
      [] slot = "_access_token" -> "access_token"
      [] slot = "_access_token_expires_on" -> "access_token_expires_on"
      [] slot = "_application_key" -> "application_key"
      [] slot = "_authorization_token" -> "authorization_token"
      [] slot = "_demand_response_list" -> "demand_response_list"
      [] slot = "_demand_response_ref" -> "demand_response_ref"
      [] slot = "_ecobee_pin" -> "ecobee_pin"
      [] slot = "_expires_in" -> "expires_in"
      [] slot = "_groups" -> "groups"
      [] slot = "_interval" -> "interval"
      [] slot = "_job_id" -> "job_id"
      [] slot = "_job_status" -> "job_status"
      [] slot = "_jobs" -> "jobs"
      [] slot = "_page" -> "page"
      [] slot = "_privileges" -> "privileges"
      [] slot = "_refresh_token" -> "refresh_token"
      [] slot = "_refresh_token_expires_on" -> "refresh_token_expires_on"
      [] slot = "_scope" -> "scope"
      [] slot = "_sets" -> "sets"
      [] slot = "_thermostat_list" -> "thermostat_list"
      [] slot = "_thermostat_name" -> "thermostat_name"
      [] slot = "_token_type" -> "token_type"
      [] slot = "_users" -> "users"
      [] OTHER -> slot

\* ------------------------------------------------------ generated code
\* one token per string appended to response_properties[...]:
\*   "open"   'Cls(\n'        "kwopen" 'arg=Cls(\n'   "kwlist" 'arg=[\n'
\*   "lopen"  '[\n'           "close"  ')'            "lclose" ']'
\*   "comma"  ',\n'           "ws"     spaces or '\n' "kw" 'arg=<repr>'
\*   "lit"    a converted list element
Tok(t, a, n, v) == [t |-> t, a |-> a, n |-> n, v |-> v]
WS == Tok("ws", "", "", NoneV)
Comma == Tok("comma", "", "", NoneV)
Close == Tok("close", "", "", NoneV)
ListOpen == Tok("lopen", "", "", NoneV)
ListClose == Tok("lclose", "", "", NoneV)
Open(cls) == Tok("open", "", cls, NoneV)
KwOpen(arg, cls) == Tok("kwopen", arg, cls, NoneV)
KwList(arg) == Tok("kwlist", arg, "", NoneV)
Kw(arg, val) == Tok("kw", arg, "", PyLiteral(PyRepr(val)))
Lit(val) == Tok("lit", "", "", val)

\* the text generated for a built-in value that is a list element:
\* bool('<format>'), int('<format>') or '<format>', as eval will read it
ConvertBuiltin(x) ==
    CASE x.k = "bool" -> BoolV(PyBool(Format(x)))
      [] x.k = "int" -> IntV(PyInt(Format(x)))
      [] OTHER -> StrV(Format(x))

\* ------------------------------------------------------------- eval
ParseFail == [ok |-> FALSE, ast |-> NoneV, pos |-> <<>>, kw |-> <<>>, p |-> 0]

RECURSIVE SkipWs(_, _)
SkipWs(toks, p) ==
    IF p <= Len(toks) /\ toks[p].t = "ws" THEN SkipWs(toks, p + 1) ELSE p

KwNames(kw) == {kw[i][1] : i \in 1..Len(kw)}

RECURSIVE ParseExpr(_, _), ParseArgs(_, _, _, _, _), ParseElems(_, _, _, _)
\* an expression: a literal, a call Cls(args) or a list display [elems]
ParseExpr(toks, p0) ==
    LET p == SkipWs(toks, p0) IN
    IF p > Len(toks) THEN ParseFail
    ELSE CASE toks[p].t = "lit" ->
                [ok |-> TRUE, ast |-> toks[p].v, pos |-> <<>>, kw |-> <<>>, p |-> p + 1]
           [] toks[p].t = "open" ->
                LET r == ParseArgs(toks, p + 1, <<>>, <<>>, "start") IN
                IF r.ok
                THEN [r EXCEPT !.ast = [k |-> "call", c |-> toks[p].n, pos |-> r.pos, kw |-> r.kw]]
                ELSE ParseFail
           [] toks[p].t = "lopen" ->
                LET r == ParseElems(toks, p + 1, <<>>, "start") IN
                IF r.ok THEN [r EXCEPT !.ast = [k |-> "listx", v |-> r.pos]] ELSE ParseFail
           [] OTHER -> ParseFail

\* the arguments of a call up to its ')': positional arguments first, then
\* keyword arguments, separated by commas, a trailing comma allowed, no
\* keyword twice
ParseArgs(toks, p0, pos, kw, st) ==
    LET p == SkipWs(toks, p0) IN
    IF p > Len(toks) THEN ParseFail
    ELSE IF toks[p].t = "close"
    THEN [ok |-> TRUE, ast |-> NoneV, pos |-> pos, kw |-> kw, p |-> p + 1]
    ELSE IF st = "after"
    THEN IF toks[p].t = "comma" THEN ParseArgs(toks, p + 1, pos, kw, "start") ELSE ParseFail
    ELSE CASE toks[p].t = "comma" -> ParseFail
           [] toks[p].t = "kw" ->
                IF toks[p].a \in KwNames(kw) THEN ParseFail
                ELSE ParseArgs(toks, p + 1, pos, Append(kw, <<toks[p].a, toks[p].v>>), "after")
           [] toks[p].t = "kwopen" ->
                LET r == ParseArgs(toks, p + 1, <<>>, <<>>, "start") IN
                IF ~r.ok \/ toks[p].a \in KwNames(kw) THEN ParseFail
                ELSE ParseArgs(toks, r.p, pos,
                               Append(kw, <<toks[p].a,
                                            [k |-> "call", c |-> toks[p].n, pos |-> r.pos, kw |-> r.kw]>>),
                               "after")
           [] toks[p].t = "kwlist" ->
                LET r == ParseElems(toks, p + 1, <<>>, "start") IN
                IF ~r.ok \/ toks[p].a \in KwNames(kw) THEN ParseFail
                ELSE ParseArgs(toks, r.p, pos,
                               Append(kw, <<toks[p].a, [k |-> "listx", v |-> r.pos]>>), "after")
           [] OTHER ->
                LET r == ParseExpr(toks, p) IN
                IF ~r.ok \/ kw # <<>> THEN ParseFail
                ELSE ParseArgs(toks, r.p, Append(pos, r.ast), kw, "after")

\* the elements of a list display up to its ']'
ParseElems(toks, p0, acc, st) ==
    LET p == SkipWs(toks, p0) IN
    IF p > Len(toks) THEN ParseFail
    ELSE IF toks[p].t = "lclose"
    THEN [ok |-> TRUE, ast |-> NoneV, pos |-> acc, kw |-> <<>>, p |-> p + 1]
    ELSE IF st = "after"
    THEN IF toks[p].t = "comma" THEN ParseElems(toks, p + 1, acc, "start") ELSE ParseFail
    ELSE LET r == ParseExpr(toks, p) IN
         IF ~r.ok THEN ParseFail ELSE ParseElems(toks, r.p, Append(acc, r.ast), "after")

ParamIndex(params, name) ==
    IF \E i \in 1..Len(params) : params[i].n = name
    THEN CHOOSE i \in 1..Len(params) : params[i].n = name
    ELSE 0

KwValue(kw, name) == kw[CHOOSE i \in 1..Len(kw) : kw[i][1] = name][2]

\* Cls(*pos, **kw): bind the arguments to the parameters of __init__, which
\* stores each parameter in its slot
Instantiate(cls, pos, kw) ==
    LET params == Classes[cls].init
        bound(i) == i <= Len(pos) \/ params[i].n \in KwNames(kw)
        value(i) == IF i <= Len(pos) THEN pos[i]
                    ELSE IF params[i].n \in KwNames(kw) THEN KwValue(kw, params[i].n)
                    ELSE NoneV
        slotval(s) == value(CHOOSE i \in 1..Len(params) : params[i].slot = s)
    IN  IF \/ Len(pos) > Len(params)
           \/ \E n \in KwNames(kw) : ParamIndex(params, n) = 0 \/ ParamIndex(params, n) <= Len(pos)
           \/ \E i \in 1..Len(params) : params[i].req /\ ~bound(i)
        THEN [ok |-> FALSE, v |-> NoneV]
        ELSE [ok |-> TRUE,
              v |-> ObjV(cls, [i \in 1..Len(Classes[cls].slots) |->
                                   <<Classes[cls].slots[i], slotval(Classes[cls].slots[i])>>])]

RECURSIVE Construct(_), ConstructAll(_), ConstructKw(_)
\* evaluate a parsed expression, arguments before the call, left to right
Construct(ast) ==
    CASE ast.k = "call" ->
            LET ps == ConstructAll(ast.pos)
                ks == ConstructKw(ast.kw)
            IN  IF ps.ok /\ ks.ok THEN Instantiate(ast.c, ps.v, ks.v)
                ELSE [ok |-> FALSE, v |-> NoneV]
      [] ast.k = "listx" ->
            LET es == ConstructAll(ast.v) IN
            IF es.ok THEN [ok |-> TRUE, v |-> ListV(es.v)] ELSE [ok |-> FALSE, v |-> NoneV]
      [] OTHER -> [ok |-> TRUE, v |-> ast]

ConstructAll(asts) ==
    IF asts = <<>> THEN [ok |-> TRUE, v |-> <<>>]
    ELSE LET h == Construct(Head(asts))
             t == ConstructAll(Tail(asts))
         IN  IF h.ok /\ t.ok THEN [ok |-> TRUE, v |-> <<h.v>> \o t.v]
             ELSE [ok |-> FALSE, v |-> <<>>]

ConstructKw(kw) ==
    IF kw = <<>> THEN [ok |-> TRUE, v |-> <<>>]
    ELSE LET h == Construct(Head(kw)[2])
             t == ConstructKw(Tail(kw))
         IN  IF h.ok /\ t.ok THEN [ok |-> TRUE, v |-> <<<<Head(kw)[1], h.v>>>> \o t.v]
             ELSE [ok |-> FALSE, v |-> <<>>]

\* the argument expressions of a call or the elements of a list display, in
\* the order eval evaluates them
Operands(ast) ==
    CASE ast.k = "call" -> ast.pos \o [i \in 1..Len(ast.kw) |-> ast.kw[i][2]]
      [] ast.k = "listx" -> ast.v
      [] OTHER -> <<>>

RECURSIVE MutConstructions(_, _), Constructions(_, _), ConstructionsAll(_, _, _)
\* the constructor calls of an evaluation that calls a class before it
\* evaluates the arguments of the call
MutConstructions(ast, path) ==
    LET inner == ConstructionsAll(Operands(ast), path, 1) IN
    IF ast.k = "call" THEN <<[c |-> ast.c, path |-> path]>> \o inner ELSE inner

\* the constructor calls eval makes for the expression found at path, in the
\* order it makes them: the operands left to right, then the call itself;
\* nothing after an operand that raised
Constructions(ast, path) ==
    LET inner == ConstructionsAll(Operands(ast), path, 1) IN
    IF ast.k = "call" /\ ConstructAll(Operands(ast)).ok
    THEN inner \o <<[c |-> ast.c, path |-> path]>>
    ELSE inner

ConstructionsAll(asts, path, i) ==
    IF i > Len(asts) THEN <<>>
    ELSE IF Construct(asts[i]).ok
    THEN Constructions(asts[i], Append(path, i)) \o ConstructionsAll(asts, path, i + 1)
    ELSE Constructions(asts[i], Append(path, i))

\* eval(''.join(tokens)): the value of the generated expression, or the
\* SyntaxError of compiling it, or the TypeError of a constructor call
Eval(toks) ==
    LET r == ParseExpr(toks, 1) IN
    IF ~r.ok \/ SkipWs(toks, r.p) <= Len(toks) THEN RaiseV("SyntaxError", "")
    ELSE LET o == Construct(r.ast) IN
         IF o.ok THEN o.v ELSE RaiseV("TypeError", "")

\* ------------------------------------------------ dictionary_to_object
\* A call is run one statement group at a time.  A state of the run is
\* s = [c |-> the call's own state, d |-> the list object that is the
\* default value of the parameter parent_classes, shared by all calls].
\*   c.ptype   property_type           c.rp     response_properties
\*   c.own     the list the call bound parent_classes to with
\*             'parent_classes = [key]'
\*   c.stack   the activations of dictionary_to_object, innermost last
\*   c.log     the (class, key) pairs passed to logger.error
\*   c.missing the class names that are not attributes of the module (an
\*             import that is absent); empty for the module as it is
\* An activation holds its argument data, which list its parent_classes
\* refers to (ref), its position (pc) and its loop indices i and j.
KeyE(key) == [t |-> "key", n |-> key]
ClsE(cls) == [t |-> "cls", n |-> cls]

Frame(data, ref, top) ==
    [data |-> data, ref |-> ref, pc |-> "entry", i |-> 1, j |-> 1, app |-> FALSE, top |-> top]

\* dictionary_to_object({key: json}, {key: cls}, {key: None}, is_top_level=True)
NewCall(key, cls, json) ==
    [ptype |-> (key :> cls),
     rp |-> (key :> [init |-> FALSE, out |-> <<>>]),
     own |-> <<>>,
     stack |-> <<Frame(DictV(<<<<key, json>>>>), "dflt", TRUE)>>,
     log |-> <<>>,
     missing |-> {},
     done |-> FALSE,
     result |-> NoneV]

TopFrame(s) == s.c.stack[Len(s.c.stack)]
SetFrame(s, f) == [s EXCEPT !.c.stack[Len(s.c.stack)] = f]
PushFrame(s, f) == [s EXCEPT !.c.stack = Append(@, f)]
PopFrame(s) == [s EXCEPT !.c.stack = SubSeq(@, 1, Len(@) - 1)]

\* the list parent_classes refers to in activation f
ParentClasses(s, f) == IF f.ref = "dflt" THEN s.d ELSE s.c.own
SetParentClasses(s, f, pcs) ==
    IF f.ref = "dflt" THEN [s EXCEPT !.d = pcs] ELSE [s EXCEPT !.c.own = pcs]

Raise(s, exc, arg) == [s EXCEPT !.c.done = TRUE, !.c.result = RaiseV(exc, arg)]

\* response_properties[parent_classes[0]].append(generated_code)
Emit(s, f, tok) ==
    LET pcs == ParentClasses(s, f) IN
    IF s.c.done THEN s
    ELSE IF pcs = <<>> THEN Raise(s, "IndexError", "")
    ELSE IF pcs[1].t # "key" \/ pcs[1].n \notin DOMAIN s.c.rp THEN Raise(s, "KeyError", pcs[1].n)
    ELSE IF ~s.c.rp[pcs[1].n].init THEN Raise(s, "AttributeError", "")
    ELSE [s EXCEPT !.c.rp[pcs[1].n].out = Append(@, tok)]

\* response_properties[key] = []
ResetProperties(rp, key) ==
    [x \in DOMAIN rp \cup {key} |-> IF x = key THEN [init |-> TRUE, out |-> <<>>] ELSE rp[x]]

\* the class a nested object is given: the module attribute named by the
\* capitalised key, else the one _class_name_map names for the key
NestedClass(key) ==
    IF Capitalize(key) \in ModuleNames THEN [ok |-> TRUE, n |-> Capitalize(key), exc |-> ""]
    ELSE IF key \notin DOMAIN _class_name_map THEN [ok |-> FALSE, n |-> "", exc |-> "KeyError"]
    ELSE IF _class_name_map[key] \in ModuleNames
         THEN [ok |-> TRUE, n |-> _class_name_map[key], exc |-> ""]
         ELSE [ok |-> FALSE, n |-> "", exc |-> "AttributeError"]

\* ',\n' if index != length - 1 else '\n'   (index counted from 1 here)
Separator(index, length) == IF index # length THEN Comma ELSE WS

\* the keyword a scalar attribute is passed under
ArgumentName(name) == IF name \in PyReserved THEN name \o "_" ELSE name

\* data[key] is an object below the top level
NestedObject(s, f, key, val) ==
    LET pcs == ParentClasses(s, f)
        r == IF Capitalize(key) \notin s.c.missing THEN NestedClass(key)
             ELSE IF key \notin DOMAIN _class_name_map
             THEN [ok |-> FALSE, n |-> "", exc |-> "KeyError"]
             ELSE IF _class_name_map[key] \in ModuleNames \ s.c.missing
             THEN [ok |-> TRUE, n |-> _class_name_map[key], exc |-> ""]
             ELSE [ok |-> FALSE, n |-> "", exc |-> "AttributeError"]
        pcs1 == Append(pcs, ClsE(r.n))
        s1 == SetParentClasses(s, f, pcs1)
        parent == pcs1[Len(pcs1) - 1]
    IN  IF ~r.ok THEN Raise(s, r.exc, key)
        ELSE IF parent.t # "cls" THEN Raise(s1, "AttributeError", "")
        ELSE IF key \notin DOMAIN Classes[parent.n].attribute_name_map THEN Raise(s1, "KeyError", key)
        ELSE LET s2 == Emit(s1, f, KwOpen(Classes[parent.n].attribute_name_map[key], r.n)) IN
             IF s2.c.done THEN s2
             ELSE PushFrame(SetFrame(s2, [f EXCEPT !.pc = "obj_after"]), Frame(val, f.ref, FALSE))

\* the top level object, with 'parent_classes.append(key)' on the default
\* list in place of 'parent_classes = [key]'
MutTopObject(s, f, key, val) ==
    LET cap == Capitalize(key)
        s1 == [s EXCEPT !.d = s.d \o <<KeyE(key), ClsE(cap)>>,
                        !.c.rp = ResetProperties(@, key)]
        f1 == [f EXCEPT !.pc = "obj_after"]
        s2 == Emit(s1, f1, Open(cap))
    IN  IF cap \notin ModuleNames THEN Raise([s EXCEPT !.d = Append(s.d, KeyE(key))], "AttributeError", "")
        ELSE IF s2.c.done THEN s2
        ELSE PushFrame(SetFrame(s2, f1), Frame(val, f.ref, FALSE))

\* data[key] is the top level object
TopObject(s, f, key, val) ==
    LET cap == Capitalize(key)
        s1 == [s EXCEPT !.c.own = <<KeyE(key), ClsE(cap)>>,
                        !.c.rp = ResetProperties(@, key)]
        f1 == [f EXCEPT !.ref = "own", !.pc = "obj_after"]
        s2 == Emit(s1, f1, Open(cap))
    IN  IF cap \notin ModuleNames \ s.c.missing
        THEN Raise([s EXCEPT !.c.own = <<KeyE(key)>>], "AttributeError", "")
        ELSE IF s2.c.done THEN s2
        ELSE PushFrame(SetFrame(s2, f1), Frame(val, "own", FALSE))

\* data[key] is a list below the top level
NestedList(s, f, key) ==
    LET pcs == ParentClasses(s, f)
        parent == pcs[Len(pcs)]
    IN  IF parent.t # "cls" THEN Raise(s, "AttributeError", "")
        ELSE IF key \notin DOMAIN Classes[parent.n].attribute_name_map THEN Raise(s, "KeyError", key)
        ELSE LET s1 == Emit(s, f, KwList(Classes[parent.n].attribute_name_map[key])) IN
             IF s1.c.done THEN s1 ELSE SetFrame(s1, [f EXCEPT !.pc = "entry_loop", !.j = 1])

\* the top level list, with 'parent_classes.append(key)' on the default
\* list in place of 'parent_classes = [key]'
MutTopList(s, f, key) ==
    LET s1 == [s EXCEPT !.d = Append(s.d, KeyE(key)), !.c.rp = ResetProperties(@, key)]
        f1 == [f EXCEPT !.pc = "entry_loop", !.j = 1]
        s2 == Emit(s1, f1, ListOpen)
    IN  IF s2.c.done THEN s2 ELSE SetFrame(s2, f1)

\* data[key] is the top level list
TopList(s, f, key) ==
    LET s1 == [s EXCEPT !.c.own = <<KeyE(key)>>, !.c.rp = ResetProperties(@, key)]
        f1 == [f EXCEPT !.ref = "own", !.pc = "entry_loop", !.j = 1]
        s2 == Emit(s1, f1, ListOpen)
    IN  IF s2.c.done THEN s2 ELSE SetFrame(s2, f1)

\* a built-in value passed to the constructor as the text the list element
\* branch generates, bool('<format>') or int('<format>'), in place of its repr
MutAttribute(s, f, key, val) ==
    LET s1 == Emit(s, f, WS)
        pcs == ParentClasses(s1, f)
        owner == pcs[Len(pcs)]
        s2 == IF pcs = <<>> THEN Emit(s1, f, Kw(key, val))
              ELSE IF owner.t # "cls" THEN Raise(s1, "AttributeError", "")
              ELSE IF key \in DOMAIN Classes[owner.n].attribute_name_map
              THEN Emit(s1, f, Kw(ArgumentName(Classes[owner.n].attribute_name_map[key]),
                                  ConvertBuiltin(val)))
              ELSE [s1 EXCEPT !.c.log = Append(@, <<owner.n, key>>)]
        s3 == Emit(s2, f, Separator(f.i, Len(f.data.v)))
    IN  IF s1.c.done THEN s1
        ELSE IF s2.c.done THEN s2
        ELSE IF s3.c.done THEN s3
        ELSE SetFrame(s3, [f EXCEPT !.i = f.i + 1])

\* data[key] is a built-in value: an argument of the enclosing constructor
Attribute(s, f, key, val) ==
    LET s1 == Emit(s, f, WS)
        pcs == ParentClasses(s1, f)
        owner == pcs[Len(pcs)]
        s2 == IF pcs = <<>> THEN Emit(s1, f, Kw(key, val))
              ELSE IF owner.t # "cls" THEN Raise(s1, "AttributeError", "")
              ELSE IF key \in DOMAIN Classes[owner.n].attribute_name_map
              THEN Emit(s1, f, Kw(ArgumentName(Classes[owner.n].attribute_name_map[key]), val))
              ELSE [s1 EXCEPT !.c.log = Append(@, <<owner.n, key>>)]
        s3 == Emit(s2, f, Separator(f.i, Len(f.data.v)))
    IN  IF s1.c.done THEN s1
        ELSE IF s2.c.done THEN s2
        ELSE IF s3.c.done THEN s3
        ELSE SetFrame(s3, [f EXCEPT !.i = f.i + 1])

\* for (i, key) in enumerate(data): dispatch on the shape of data[key]
DictLoop(s, f) ==
    IF f.i > Len(f.data.v) THEN SetFrame(s, [f EXCEPT !.pc = "ret"])
    ELSE LET key == f.data.v[f.i][1]
             val == f.data.v[f.i][2]
             nested == Len(ParentClasses(s, f)) > 1
         IN  CASE val.k = "dict" ->
                    IF nested THEN NestedObject(s, f, key, val) ELSE TopObject(s, f, key, val)
               [] val.k = "list" ->
                    IF nested THEN NestedList(s, f, key) ELSE TopList(s, f, key)
               [] OTHER -> Attribute(s, f, key, val)

\* the statements after the recursive call for an object, with
\* 'data[key] = None' added: a decode that uses up its payload
MutObjectAfter(s, f) ==
    LET s1 == Emit(s, f, Close)
        pcs == ParentClasses(s1, f)
        s2 == Emit(s1, f, IF Len(pcs) > 2 THEN Comma ELSE WS)
    IN  IF s1.c.done THEN s1
        ELSE IF s2.c.done THEN s2
        ELSE IF pcs = <<>> THEN Raise(s2, "IndexError", "")
        ELSE SetFrame(SetParentClasses(s2, f, SubSeq(pcs, 1, Len(pcs) - 1)),
                      [f EXCEPT !.pc = "dict_loop", !.i = f.i + 1, !.data.v[f.i][2] = NoneV])

\* after the recursive call for an object: ')' and its separator, then pop
ObjectAfter(s, f) ==
    LET s1 == Emit(s, f, Close)
        pcs == ParentClasses(s1, f)
        s2 == Emit(s1, f, IF Len(pcs) > 2 THEN Comma ELSE WS)
    IN  IF s1.c.done THEN s1
        ELSE IF s2.c.done THEN s2
        ELSE IF pcs = <<>> THEN Raise(s2, "IndexError", "")
        ELSE SetFrame(SetParentClasses(s2, f, SubSeq(pcs, 1, Len(pcs) - 1)),
                      [f EXCEPT !.pc = "dict_loop", !.i = f.i + 1])

\* the element class of a list is read from the declared type 'List[X]' of
\* the owning attribute (the top level list: from property_type)
EntryClass(s, f, key) ==
    LET pcs == ParentClasses(s, f)
        owner == pcs[Len(pcs)]
        desc == Classes[owner.n]
        attr == desc.attribute_name_map[key]
        class_name == desc.attribute_type_map[attr]
    IN  IF Len(pcs) > 1
        THEN IF owner.t # "cls" THEN [exc |-> "AttributeError", app |-> FALSE, n |-> ""]
             ELSE IF key \notin DOMAIN desc.attribute_name_map \/ attr \notin DOMAIN desc.attribute_type_map
             THEN [exc |-> "KeyError", app |-> FALSE, n |-> ""]
             ELSE IF /\ HasList(class_name)
                     /\ InModule(ElementType(class_name))
                     /\ ElementType(class_name)[1] \notin s.c.missing
             THEN [exc |-> "", app |-> TRUE, n |-> ElementType(class_name)[1]]
             ELSE [exc |-> "", app |-> FALSE, n |-> ""]
        ELSE IF key \in DOMAIN s.c.ptype
             THEN [exc |-> "", app |-> TRUE, n |-> s.c.ptype[key]]
             ELSE [exc |-> "KeyError", app |-> FALSE, n |-> ""]

\* for (j, list_entry) in enumerate(data[key])
EntryLoop(s, f) ==
    LET key == f.data.v[f.i][1]
        val == f.data.v[f.i][2]
        pcs == ParentClasses(s, f)
        e == EntryClass(s, f, key)
        s1 == SetParentClasses(s, f, Append(pcs, ClsE(e.n)))
        s2 == Emit(s1, f, Open(e.n))
    IN  IF f.j > Len(val.v) THEN SetFrame(s, [f EXCEPT !.pc = "list_after"])
        ELSE IF e.exc # "" THEN Raise(s, e.exc, key)
        ELSE IF e.app
        THEN IF s2.c.done THEN s2
             ELSE PushFrame(SetFrame(s2, [f EXCEPT !.pc = "entry_after", !.app = TRUE]),
                            Frame(val.v[f.j], f.ref, FALSE))
        ELSE PushFrame(SetFrame(s, [f EXCEPT !.pc = "entry_after", !.app = FALSE]),
                       Frame(val.v[f.j], f.ref, FALSE))

\* after the recursive call for a list entry
EntryAfter(s, f) ==
    LET val == f.data.v[f.i][2]
        pcs == ParentClasses(s, f)
        s1 == IF ~f.app THEN s
              ELSE IF pcs = <<>> THEN Raise(s, "IndexError", "")
              ELSE Emit(SetParentClasses(s, f, SubSeq(pcs, 1, Len(pcs) - 1)), f, Close)
        s2 == Emit(s1, f, Separator(f.j, Len(val.v)))
    IN  IF s1.c.done THEN s1
        ELSE IF s2.c.done THEN s2
        ELSE SetFrame(s2, [f EXCEPT !.pc = "entry_loop", !.j = f.j + 1])

\* after the entries of data[key]: ']' and its separator
ListAfter(s, f) ==
    LET s1 == Emit(Emit(s, f, ListClose), f, Separator(f.i, Len(f.data.v))) IN
    IF s1.c.done THEN s1 ELSE SetFrame(s1, [f EXCEPT !.pc = "dict_loop", !.i = f.i + 1])

\* data is a list: '[', its entries separated by ',', ']'
ListLoop(s, f) ==
    IF f.i > Len(f.data.v)
    THEN LET s1 == Emit(s, f, ListClose) IN
         IF s1.c.done THEN s1 ELSE SetFrame(s1, [f EXCEPT !.pc = "ret"])
    ELSE LET s1 == IF f.i > 1 THEN Emit(s, f, Comma) ELSE s IN
         IF s1.c.done THEN s1
         ELSE PushFrame(SetFrame(s1, [f EXCEPT !.i = f.i + 1]), Frame(f.data.v[f.i], f.ref, FALSE))

\* isinstance(data, dict) / isinstance(data, list) / built-in data type
Entry(s, f) ==
    CASE f.data.k = "dict" -> SetFrame(s, [f EXCEPT !.pc = "dict_loop", !.i = 1])
      [] f.data.k = "list" ->
            LET s1 == Emit(s, f, ListOpen) IN
            IF s1.c.done THEN s1 ELSE SetFrame(s1, [f EXCEPT !.pc = "list_loop", !.i = 1])
      [] OTHER ->
            LET s1 == Emit(s, f, Lit(ConvertBuiltin(f.data))) IN
            IF s1.c.done THEN s1 ELSE SetFrame(s1, [f EXCEPT !.pc = "ret"])

\* if is_top_level: return eval(''.join(response_properties[parent_classes[0]]))
Return(s, f) ==
    LET pcs == ParentClasses(s, f) IN
    IF ~f.top THEN PopFrame(s)
    ELSE IF pcs = <<>> THEN Raise(s, "IndexError", "")
    ELSE IF pcs[1].t # "key" \/ pcs[1].n \notin DOMAIN s.c.rp THEN Raise(s, "KeyError", pcs[1].n)
    ELSE IF ~s.c.rp[pcs[1].n].init THEN Raise(s, "TypeError", "")
    ELSE [s EXCEPT !.c.done = TRUE, !.c.result = Eval(s.c.rp[pcs[1].n].out)]

\* one step of a running call
Step(s) ==
    LET f == TopFrame(s) IN
    CASE f.pc = "entry" -> Entry(s, f)
      [] f.pc = "dict_loop" -> DictLoop(s, f)
      [] f.pc = "obj_after" -> ObjectAfter(s, f)
      [] f.pc = "entry_loop" -> EntryLoop(s, f)
      [] f.pc = "entry_after" -> EntryAfter(s, f)
      [] f.pc = "list_after" -> ListAfter(s, f)
      [] f.pc = "list_loop" -> ListLoop(s, f)
      [] f.pc = "ret" -> Return(s, f)

RECURSIVE Run(_)
\* a call run from s to its return or its exception, no other call interleaved
Run(s) == IF s.c.done THEN s ELSE Run(Step(s))

\* ------------------------------------------------ object_to_dictionary
\* object_.slots(): the slots of the object's class, inherited ones included
Slots(cls) == Classes[cls].slots

\* hasattr(entry, '__slots__')
HasSlots(x) == x.k = "obj"

\* getattr(sys.modules[__name__], type(attribute_value).__name__) succeeds
IsModuleObject(x) == x.k = "obj" /\ x.c \in ModuleNames

RECURSIVE ObjectToDictionary(_, _), EncodeSlots(_, _, _), EncodeEntries(_)
ObjectToDictionary(object_, class_) == DictV(EncodeSlots(object_, class_, 1))

\* the entries for slots i, i+1, ... without the test
\* 'if attribute_value is not None'
MutEncodeSlots(object_, class_, i) ==
    IF i > Len(Slots(object_.c)) THEN <<>>
    ELSE LET attribute_name == Slots(object_.c)[i]
             attribute_value == object_.v[i][2]
             wire == Classes[class_].attribute_name_map[StripUnderscore(attribute_name)]
             rest == EncodeSlots(object_, class_, i + 1)
         IN  IF attribute_value.k = "list"
             THEN <<<<wire, ListV(EncodeEntries(attribute_value.v))>>>> \o rest
             ELSE IF IsModuleObject(attribute_value)
             THEN <<<<wire, ObjectToDictionary(attribute_value, attribute_value.c)>>>> \o rest
             ELSE <<<<wire, attribute_value>>>> \o rest

\* for attribute_name in object_.slots(): the entries for slots i, i+1, ...
EncodeSlots(object_, class_, i) ==
    IF i > Len(Slots(object_.c)) THEN <<>>
    ELSE LET attribute_name == Slots(object_.c)[i]
             attribute_value == object_.v[i][2]
             wire == Classes[class_].attribute_name_map[StripUnderscore(attribute_name)]
             rest == EncodeSlots(object_, class_, i + 1)
         IN  IF attribute_value.k = "none" THEN rest
             ELSE IF attribute_value.k = "list"
             THEN <<<<wire, ListV(EncodeEntries(attribute_value.v))>>>> \o rest
             ELSE IF IsModuleObject(attribute_value)
             THEN <<<<wire, ObjectToDictionary(attribute_value, attribute_value.c)>>>> \o rest
             ELSE <<<<wire, attribute_value>>>> \o rest

\* for entry in attribute_value
EncodeEntries(entries) ==
    IF entries = <<>> THEN <<>>
    ELSE LET entry == Head(entries) IN
         <<IF HasSlots(entry) THEN ObjectToDictionary(entry, entry.c) ELSE entry>>
            \o EncodeEntries(Tail(entries))

\* ----------------------------------------------------------- payloads
SeqsUpTo(S, n) == UNION {[1..m -> S] : m \in 0..n}

IsInjective(q) == \A i, j \in 1..Len(q) : q[i] = q[j] => i = j

RECURSIVE DictsOver(_, _)
\* the ordered dicts with key sequence q and values[key] the choices for key
DictsOver(q, values) ==
    IF q = <<>> THEN {<<>>}
    ELSE {<<<<Head(q), v>>>> \o r : v \in values[Head(q)], r \in DictsOver(Tail(q), values)}

Ints == {IntV(n) : n \in 0..MaxInt}

GoodStatus == DictV(<<<<"code", IntV(0)>>, <<"message", StrV("")>>>>)

StatusValues ==
    [code |-> Ints \cup {BoolV(FALSE), BoolV(TRUE)},
     message |-> {StrV(""), StrV("a")},
     bogusField |-> {StrV("x"), DictV(<<>>), ListV(<<>>)}]

\* Status payloads: any keys of Status and an unknown key, in any order
StatusJson ==
    {DictV(d) : d \in UNION {DictsOver(q, StatusValues) :
                               q \in {r \in SeqsUpTo({"code", "message", "bogusField"}, 3) : IsInjective(r)}}}

\* values of a field declared Status whose shape is not an object
MisShapedStatus ==
    {IntV(1), NoneV, ListV(<<>>), ListV(<<IntV(1)>>), ListV(<<DictV(<<<<"code", IntV(0)>>>>)>>),
     ListV(<<GoodStatus>>)}

StatusResponseJson ==
    {DictV(<<<<"status", v>>>>) : v \in StatusJson \cup MisShapedStatus}
    \cup {DictV(d) : d \in DictsOver(<<"status", "bogusField">>,
                                     [status |-> {GoodStatus}, bogusField |-> StatusValues.bogusField])}
    \cup {DictV(d) : d \in DictsOver(<<"bogusField", "status">>,
                                     [status |-> {GoodStatus}, bogusField |-> StatusValues.bogusField])}
    \cup {DictV(<<>>)}

\* elements of a list declared List[six.text_type]
PrimitiveEntries ==
    {StrV("a"), BoolV(TRUE), BoolV(FALSE), FloatV("1.5"), NoneV,
     ListV(<<StrV("a"), BoolV(FALSE)>>), DictV(<<>>),
     DictV(<<<<"thermostatCount", IntV(1)>>>>), DictV(<<<<"bogusField", IntV(1)>>>>)} \cup Ints

PrimitiveLists == {ListV(q) : q \in SeqsUpTo(PrimitiveEntries, MaxLen)}

SummaryJson ==
    {DictV(d) : d \in DictsOver(<<"revisionList", "thermostatCount", "statusList", "status">>,
                    [revisionList |-> PrimitiveLists \cup {StrV("a"), DictV(<<>>)},
                     thermostatCount |-> Ints \cup {ListV(<<IntV(1)>>)},
                     statusList |-> {ListV(<<>>)},
                     status |-> {GoodStatus}])}
    \cup {DictV(d) : d \in DictsOver(<<"status", "statusList", "thermostatCount", "revisionList">>,
                    [revisionList |-> {ListV(<<StrV("a")>>)},
                     thermostatCount |-> Ints,
                     statusList |-> {ListV(<<StrV("a")>>), ListV(<<>>)},
                     status |-> {GoodStatus, IntV(1)}])}

\* elements of a list declared List[RemoteSensor]
SensorEntries ==
    {DictV(<<<<"id", StrV("rs:100")>>, <<"name", StrV("Kitchen")>>>>),
     DictV(<<<<"id", StrV("rs:101")>>>>),
     DictV(<<>>),
     DictV(<<<<"name", StrV("Kitchen")>>, <<"bogusField", IntV(1)>>>>),
     StrV("a"),
     ListV(<<StrV("a")>>)}

SensorLists == {ListV(q) : q \in SeqsUpTo(SensorEntries, MaxLen)}

ThermostatValues ==
    [identifier |-> {StrV("123")},
     remoteSensors |-> SensorLists \cup {StrV("x"), DictV(<<<<"id", StrV("rs:100")>>>>)}]

ThermostatJson ==
    {DictV(d) : d \in DictsOver(<<"identifier", "remoteSensors">>, ThermostatValues)
                       \cup DictsOver(<<"remoteSensors", "identifier">>, ThermostatValues)
                       \cup DictsOver(<<"remoteSensors">>, ThermostatValues)}

\* a response body that is not an object
TopLevelOddities == {IntV(1), ListV(<<>>), ListV(<<GoodStatus>>), ListV(<<GoodStatus, StrV("a")>>)}

\* an object under a key that capitalises to a module class but that the
\* parent type does not declare
UndeclaredObjectJson ==
    {DictV(<<<<"identifier", StrV("123")>>, <<"status", GoodStatus>>>>),
     DictV(<<<<"status", GoodStatus>>>>)}

Input(key, json) == [key |-> key, json |-> json]

\* a call made while the module lacks the classes named in missing
InputWithout(key, json, missing) == [key |-> key, json |-> json, missing |-> missing]

\* payloads decoded while the class of a member is not an attribute of the
\* module: thermostats without RemoteSensor, status responses without Status
UnregisteredInputs ==
    {InputWithout("Thermostat", j, {"RemoteSensor"}) : j \in ThermostatJson}
    \cup {InputWithout("EcobeeStatusResponse", j, {"Status"}) : j \in StatusResponseJson}

\* the calls dictionary_to_object({key: json}, {key: cls}, {key: None}, is_top_level=True)
Inputs ==
    {Input("Status", j) : j \in StatusJson \cup TopLevelOddities}
    \cup {Input("EcobeeStatusResponse", j) : j \in StatusResponseJson}
    \cup {Input("EcobeeThermostatsSummaryResponse", j) : j \in SummaryJson}
    \cup {Input("Thermostat", j) : j \in ThermostatJson \cup UndeclaredObjectJson}

\* the calls whose first result is kept for comparison with a later one
MemoInputs ==
    {Input("Status", GoodStatus),
     Input("Status", DictV(<<<<"code", IntV(0)>>, <<"bogusField", StrV("x")>>, <<"message", StrV("")>>>>)),
     Input("Status", IntV(1)),
     Input("Status", ListV(<<GoodStatus>>)),
     Input("EcobeeStatusResponse", DictV(<<<<"status", GoodStatus>>>>)),
     Input("EcobeeStatusResponse", DictV(<<<<"status", DictV(<<>>)>>>>)),
     Input("EcobeeThermostatsSummaryResponse",
           DictV(<<<<"revisionList", ListV(<<StrV("a")>>)>>, <<"thermostatCount", IntV(1)>>,
                   <<"statusList", ListV(<<>>)>>, <<"status", GoodStatus>>>>)),
     Input("Thermostat",
           DictV(<<<<"identifier", StrV("123")>>,
                   <<"remoteSensors", ListV(<<DictV(<<<<"id", StrV("rs:100")>>,
                                                      <<"name", StrV("Kitchen")>>>>)>>)>>>>))}

\* the calls that are run interleaved
ConcurrentInputs ==
    MemoInputs \cup
    {Input("Thermostat", DictV(<<<<"remoteSensors", DictV(<<<<"id", StrV("rs:100")>>>>)>>,
                               <<"identifier", StrV("123")>>>>)),
     Input("EcobeeStatusResponse", DictV(<<<<"status", ListV(<<IntV(1)>>)>>>>))}

\* -------------------------------------------------------------- state
VARIABLES
    dflt,       \* the default list of the parameter parent_classes
    calls,      \* the dictionary_to_object calls in progress or finished
    phase,      \* "idle", "decoded", "encoded"; "concurrent" for interleaved calls;
                \* "returned" after an EcobeeService method
    encoded,    \* the object_to_dictionary of the last decoded object
    memo,       \* an earlier call and its result
    sent,       \* the requests an EcobeeService method handed to requests
    svc,        \* the last EcobeeService method call and how it ended
    self,       \* the token attributes of the EcobeeService object in memory
    clock,      \* now: the time datetime.now gives, in seconds; ticks: how often
                \* it was advanced
    main        \* the run of the driver: its position, the service object on
                \* the shelf and the now_utc of its expiry check

vars == <<dflt, calls, phase, encoded, memo, sent, svc, self, clock, main>>

service == <<sent, svc>>

tokens == <<self, clock, main>>

\* EcobeeService(thermostat_name, application_key): the token attributes
\* after the constructor
NewService ==
    [authorization_token |-> NoneV, access_token |-> NoneV, refresh_token |-> NoneV,
     access_token_expires_on |-> NoneV, refresh_token_expires_on |-> NoneV]

\* the driver is not running and its shelf is empty
NoMain == [pc |-> "", shelf |-> NoneV, now_utc |-> NoneV]

\* no EcobeeService method has been called
NoService == [op |-> "", args |-> <<>>, response_class |-> "", wire |-> NoneV, out |-> NoneV]

CallOf(in) ==
    IF "missing" \in DOMAIN in
    THEN [NewCall(in.key, in.key, in.json) EXCEPT !.missing = in.missing]
    ELSE NewCall(in.key, in.key, in.json)

\* the arguments a call was made with
InputOf(c) ==
    IF c.missing = {}
    THEN Input(c.stack[1].data.v[1][1], c.stack[1].data.v[1][2])
    ELSE InputWithout(c.stack[1].data.v[1][1], c.stack[1].data.v[1][2], c.missing)

\* other: a call with other arguments was made since the result was kept
NoMemo == [set |-> FALSE, in |-> Input("", NoneV), result |-> NoneV, other |-> FALSE]

Init ==
    /\ dflt = <<>>
    /\ calls = <<>>
    /\ phase = "idle"
    /\ encoded = NoneV
    /\ memo = NoMemo
    /\ sent = <<>>
    /\ svc = NoService
    /\ self = NewService
    /\ clock = [now |-> 0, ticks |-> 0]
    /\ main = NoMain

\* Utilities.dictionary_to_object({key: json}, {key: cls}, {key: None},
\* is_top_level=True), the whole call
Decode ==
    /\ phase = "idle"
    /\ \E in \in Inputs :
         LET s == Run([c |-> CallOf(in), d |-> dflt]) IN
         /\ calls' = <<s.c>>
         /\ dflt' = s.d
         /\ memo' = IF memo.set /\ in # memo.in THEN [memo EXCEPT !.other = TRUE] ELSE memo
    /\ phase' = "decoded"
    /\ UNCHANGED <<encoded, service, tokens>>

\* Utilities.object_to_dictionary(object_, type(object_)) of the decoded object
Encode ==
    /\ phase = "decoded"
    /\ calls[1].result.k = "obj"
    /\ encoded' = ObjectToDictionary(calls[1].result, calls[1].result.c)
    /\ phase' = "encoded"
    /\ UNCHANGED <<dflt, calls, memo, service, tokens>>

\* the caller keeps the result of a call
Remember ==
    /\ phase = "decoded"
    /\ ~memo.set
    /\ InputOf(calls[1]) \in MemoInputs
    /\ memo' = [set |-> TRUE, in |-> InputOf(calls[1]), result |-> calls[1].result, other |-> FALSE]
    /\ UNCHANGED <<dflt, calls, phase, encoded, service, tokens>>

\* the caller is done with the result
Discard ==
    /\ phase \in {"decoded", "encoded"}
    /\ calls' = <<>>
    /\ phase' = "idle"
    /\ encoded' = NoneV
    /\ UNCHANGED <<dflt, memo, service, tokens>>

Next == Decode \/ Encode \/ Remember \/ Discard

Spec == Init /\ [][Next]_vars

\* ------------------------- a module without one of the classes it names
\* Utilities.dictionary_to_object, the whole call, made while a class named
\* by the payload's declarations is not an attribute of the module
DecodeUnregistered ==
    /\ phase = "idle"
    /\ \E in \in UnregisteredInputs :
         LET s == Run([c |-> CallOf(in), d |-> dflt]) IN
         /\ calls' = <<s.c>>
         /\ dflt' = s.d
    /\ phase' = "decoded"
    /\ UNCHANGED <<encoded, memo, service, tokens>>

NextUnregistered == DecodeUnregistered \/ Discard

SpecUnregistered == Init /\ [][NextUnregistered]_vars

\* ----------------------------------------- two calls on two threads
InitConcurrent ==
    /\ dflt = <<>>
    /\ \E in1, in2 \in ConcurrentInputs : calls = <<CallOf(in1), CallOf(in2)>>
    /\ phase = "concurrent"
    /\ encoded = NoneV
    /\ memo = NoMemo
    /\ sent = <<>>
    /\ svc = NoService
    /\ self = NewService
    /\ clock = [now |-> 0, ticks |-> 0]
    /\ main = NoMain

\* thread t runs its call up to the next append to response_properties
StepCall(t) ==
    /\ phase = "concurrent"
    /\ ~calls[t].done
    /\ LET s == Step([c |-> calls[t], d |-> dflt]) IN
       /\ calls' = [calls EXCEPT ![t] = s.c]
       /\ dflt' = s.d
    /\ UNCHANGED <<phase, encoded, memo, service, tokens>>

NextConcurrent == \E t \in {1, 2} : StepCall(t)

SpecConcurrent == InitConcurrent /\ [][NextConcurrent]_vars

\* ---------------------------------------------------------- properties
\* the last sequential call, its arguments and its outcome
Root == InputOf(calls[1]).key
Payload == InputOf(calls[1]).json
Result == calls[1].result
Finished == phase \in {"decoded", "encoded"}

Keys(d) == {d.v[i][1] : i \in 1..Len(d.v)}
Get(d, key) == d.v[CHOOSE i \in 1..Len(d.v) : d.v[i][1] = key][2]
SlotOf(o, slot) == o.v[CHOOSE i \in 1..Len(o.v) : o.v[i][1] = slot][2]

\* the wire names a type declares, one per slot
WireNames(cls) ==
    {Classes[cls].attribute_name_map[StripUnderscore(Classes[cls].slots[i])] :
        i \in 1..Len(Classes[cls].slots)}

\* the type a class declares for the field with wire name key
DeclaredType(cls, key) ==
    LET d == Classes[cls] IN
    IF key \in DOMAIN d.attribute_name_map /\ d.attribute_name_map[key] \in DOMAIN d.attribute_type_map
    THEN d.attribute_type_map[d.attribute_name_map[key]]
    ELSE <<>>

IsDomainType(t) == Len(t) = 1 /\ t[1] \in ClassNames

RECURSIVE Conforms(_, _)
\* the shape of json agrees with the declared type t: an object where a
\* domain type is declared, a sequence where List[X] is, a scalar otherwise
Conforms(json, t) ==
    IF IsDomainType(t)
    THEN /\ json.k = "dict"
         /\ \A i \in 1..Len(json.v) :
               DeclaredType(t[1], json.v[i][1]) = <<>>
               \/ Conforms(json.v[i][2], DeclaredType(t[1], json.v[i][1]))
    ELSE IF HasList(t)
    THEN json.k = "list" /\ \A i \in 1..Len(json.v) : Conforms(json.v[i], SubSeq(t, 2, Len(t) - 1))
    ELSE IsScalar(json)

RECURSIVE UnknownKeys(_, _)
\* the keys of json, at any depth, that the active type does not list
UnknownKeys(json, t) ==
    IF IsDomainType(t) /\ json.k = "dict"
    THEN {key \in Keys(json) : key \notin DOMAIN Classes[t[1]].attribute_name_map}
         \cup UNION {UnknownKeys(json.v[i][2], DeclaredType(t[1], json.v[i][1])) : i \in 1..Len(json.v)}
    ELSE IF HasList(t) /\ json.k = "list"
    THEN UNION {UnknownKeys(json.v[i], SubSeq(t, 2, Len(t) - 1)) : i \in 1..Len(json.v)}
    ELSE {}

RECURSIVE ExactKeys(_, _)
\* the keys of json are exactly the wire names its type declares, at any depth
ExactKeys(json, t) ==
    IF IsDomainType(t)
    THEN /\ json.k = "dict"
         /\ Keys(json) = WireNames(t[1])
         /\ Len(json.v) = Cardinality(WireNames(t[1]))
         /\ \A i \in 1..Len(json.v) : ExactKeys(json.v[i][2], DeclaredType(t[1], json.v[i][1]))
    ELSE IF HasList(t)
    THEN json.k = "list" /\ \A i \in 1..Len(json.v) : ExactKeys(json.v[i], SubSeq(t, 2, Len(t) - 1))
    ELSE IsScalar(json)

RECURSIVE SameJson(_, _)
\* equality of payloads, the order of the keys of an object ignored
SameJson(a, b) ==
    IF a.k = "dict" /\ b.k = "dict"
    THEN /\ Keys(a) = Keys(b)
         /\ Len(a.v) = Len(b.v)
         /\ \A key \in Keys(a) : SameJson(Get(a, key), Get(b, key))
    ELSE IF a.k = "list" /\ b.k = "list"
    THEN Len(a.v) = Len(b.v) /\ \A i \in 1..Len(a.v) : SameJson(a.v[i], b.v[i])
    ELSE a = b

\* C1 (round trip): for a payload P whose keys are exactly the wire names
\* its type declares, at every depth, decode returns an object and encoding
\* that object gives P back, the same keys with the same values.
RoundTrip ==
    /\ Finished /\ ExactKeys(Payload, TCls(Root)) => Result.k = "obj"
    /\ phase = "encoded" /\ ExactKeys(Payload, TCls(Root)) => SameJson(encoded, Payload)

\* C2 (unknown key rejection): decoding a payload that holds, at the top or
\* at any depth, a key the active type's attribute_name_map does not list
\* raises an error; the key is never dropped from a returned object.
UnknownKeyRejected ==
    Finished /\ UnknownKeys(Payload, TCls(Root)) # {} => Result.k = "raise"

\* C3 (all or nothing): a call that meets an unknown key or a value of the
\* wrong shape returns no object, and a returned object holds a value for
\* every key that was present in the payload.
AllOrNothing ==
    /\ Finished /\ (UnknownKeys(Payload, TCls(Root)) # {} \/ ~Conforms(Payload, TCls(Root)))
          => Result.k = "raise"
    /\ Finished /\ Result.k = "obj" /\ Payload.k = "dict"
          => \A i \in 1..Len(Payload.v) :
                /\ Payload.v[i][1] \in WireNames(Result.c)
                /\ Payload.v[i][2] # NoneV =>
                      SlotOf(Result, "_" \o Classes[Result.c].attribute_name_map[Payload.v[i][1]]) # NoneV

RECURSIVE Sparse(_, _)
\* dictionary d has no key for a slot of object o that holds None, and one
\* for every other slot, in o and in the objects o holds
Sparse(o, d) ==
    /\ d.k = "dict"
    /\ \A i \in 1..Len(o.v) :
          LET wire == Classes[o.c].attribute_name_map[StripUnderscore(o.v[i][1])]
              val == o.v[i][2]
          IN  /\ val.k = "none" <=> wire \notin Keys(d)
              /\ val.k = "obj" => Sparse(val, Get(d, wire))
              /\ val.k = "list" =>
                    /\ Get(d, wire).k = "list"
                    /\ Len(Get(d, wire).v) = Len(val.v)
                    /\ \A j \in 1..Len(val.v) :
                          val.v[j].k = "obj" => Sparse(val.v[j], Get(d, wire).v[j])

\* C4 (sparse encode): the dictionary encode produces has no key for an
\* attribute whose value is None, in the object itself and in every object
\* nested in it, and a key for every attribute that holds a value.
SparseEncode == phase = "encoded" => Sparse(Result, encoded)

\* an encoded thermostat with a sensor whose name is None and whose id is set
SparseEncodeWitness ==
    /\ phase = "encoded"
    /\ Root = "Thermostat"
    /\ SlotOf(Result, "_remote_sensors").k = "list"
    /\ \E j \in 1..Len(SlotOf(Result, "_remote_sensors").v) :
          LET e == SlotOf(Result, "_remote_sensors").v[j] IN
          /\ e.k = "obj"
          /\ SlotOf(e, "_name") = NoneV
          /\ SlotOf(e, "_id") = StrV("rs:101")
          /\ Keys(Get(encoded, "remoteSensors").v[j]) = {"id"}

\* C5 (sequence dispatch): whether the elements of a sequence become
\* instances is read from the declared type of the field: the n elements
\* under a field declared List[RemoteSensor] give n RemoteSensor instances
\* in payload order, whatever their shape, and the elements under a field
\* declared List[six.text_type] never become instances, a list of strings
\* giving those strings.
SequenceDispatch ==
    /\ Finished /\ Root = "Thermostat" /\ Result.k = "obj" /\ Payload.k = "dict"
         /\ "remoteSensors" \in Keys(Payload) /\ Get(Payload, "remoteSensors").k = "list"
       => LET L == Get(Payload, "remoteSensors").v
              R == SlotOf(Result, "_remote_sensors")
          IN  /\ R.k = "list"
              /\ Len(R.v) = Len(L)
              /\ \A j \in 1..Len(L) :
                    /\ R.v[j].k = "obj"
                    /\ R.v[j].c = "RemoteSensor"
                    /\ L[j].k = "dict" /\ "id" \in Keys(L[j]) => SlotOf(R.v[j], "_id") = Get(L[j], "id")
                    /\ L[j].k # "dict" => SlotOf(R.v[j], "_id") = L[j]
    /\ Finished /\ Root = "EcobeeThermostatsSummaryResponse" /\ Result.k = "obj"
         /\ Get(Payload, "revisionList").k = "list"
       => LET L == Get(Payload, "revisionList").v
              R == SlotOf(Result, "_revision_list")
          IN  /\ R.k = "list"
              /\ \A j \in 1..Len(R.v) : R.v[j].k # "obj"
              /\ (\A j \in 1..Len(L) : L[j].k = "str") => R.v = L

\* a thermostat decoded from two sensor objects, the two instances in order
SequenceDispatchWitness ==
    /\ phase = "decoded"
    /\ Root = "Thermostat"
    /\ Result.k = "obj"
    /\ SlotOf(Result, "_remote_sensors").k = "list"
    /\ Len(SlotOf(Result, "_remote_sensors").v) = 2
    /\ SlotOf(SlotOf(Result, "_remote_sensors").v[1], "_id") = StrV("rs:100")
    /\ SlotOf(SlotOf(Result, "_remote_sensors").v[2], "_id") = StrV("rs:101")

\* C6 (primitive list elements): the elements of a field declared as a list
\* of primitives are copied as they are: a returned object holds, for a
\* payload list of scalars, the same elements with the same values and
\* types (false stays false).
PrimitiveVerbatim ==
    Finished /\ Root = "EcobeeThermostatsSummaryResponse" /\ Result.k = "obj"
        /\ Get(Payload, "revisionList").k = "list"
        /\ (\A j \in 1..Len(Get(Payload, "revisionList").v) : IsScalar(Get(Payload, "revisionList").v[j]))
    => SlotOf(Result, "_revision_list") = Get(Payload, "revisionList")

RECURSIVE DeclaredClasses(_)
\* every object that o holds in a slot is of the type o's class declares
\* for that slot
DeclaredClasses(o) ==
    \A i \in 1..Len(o.v) :
        LET val == o.v[i][2]
            t == Classes[o.c].attribute_type_map[StripUnderscore(o.v[i][1])]
        IN  /\ val.k = "obj" => t = TCls(val.c) /\ DeclaredClasses(val)
            /\ val.k = "list" => \A j \in 1..Len(val.v) : val.v[j].k = "obj" => DeclaredClasses(val.v[j])

\* parent type P declares a field of type C or List[C]
DeclaresChild(P, C) ==
    \E a \in DOMAIN Classes[P].attribute_type_map :
        Classes[P].attribute_type_map[a] \in {TCls(C), TList(TCls(C))}

\* C7 (nested type resolution): the class of a nested object under key k in
\* a parent of type P is the type P declares for that field and is not
\* derived from the spelling of k: every object a returned object holds is
\* of its slot's declared type, and every class the call has entered on
\* parent_classes below a parent class is a type that parent declares.
NestedTypeResolution ==
    /\ Finished /\ Result.k = "obj" => DeclaredClasses(Result)
    /\ Finished =>
          \A i \in 1..(Len(calls[1].own) - 1) :
              calls[1].own[i].t = "cls" /\ calls[1].own[i + 1].t = "cls"
              => DeclaresChild(calls[1].own[i].n, calls[1].own[i + 1].n)

\* C8 (idempotence): a call with the arguments of an earlier call returns
\* what the earlier call returned, whatever calls were made in between.
Idempotent ==
    phase = "decoded" /\ memo.set /\ InputOf(calls[1]) = memo.in => Result = memo.result

\* a call repeated after a call with other arguments, an object returned
IdempotentWitness ==
    /\ phase = "decoded"
    /\ memo.set
    /\ memo.other
    /\ InputOf(calls[1]) = memo.in
    /\ Result.k = "obj"
    /\ Result = memo.result

\* the result of the call run alone, from the default list as constructed
Alone(in) == Run([c |-> CallOf(in), d |-> <<>>]).c.result

\* C9 (concurrent independence): two calls whose steps interleave each
\* return what they return run alone, each works on the parent_classes list
\* it bound itself, and the shared default list is never written.
ConcurrentIndependence ==
    phase = "concurrent" =>
        /\ dflt = <<>>
        /\ \A t \in {1, 2} :
              /\ calls[t].done => calls[t].result = Alone(InputOf(calls[t]))
              /\ \A m \in 2..Len(calls[t].stack) : calls[t].stack[m].ref = "own"

\* two different calls, both returned with an object, after interleaving
ConcurrentIndependenceWitness ==
    /\ phase = "concurrent"
    /\ calls[1].done /\ calls[2].done
    /\ InputOf(calls[1]) # InputOf(calls[2])
    /\ calls[1].result.k = "obj" /\ calls[2].result.k = "obj"

\* C10 (shape mismatch): a payload value whose shape disagrees with the
\* declared type of its field (a scalar or a sequence where an object is
\* declared, an object or a scalar where a sequence is, an object where a
\* scalar is) makes the call raise; no object is returned.
ShapeMismatchSurfaced ==
    Finished /\ ~Conforms(Payload, TCls(Root)) => Result.k = "raise"

RECURSIVE TypedFields(_, _)
\* every integer or boolean that payload json holds under a key of object o
\* is in the slot of that key with its type and value, in o and in the
\* objects o holds; an integer or boolean element of a list keeps its type
TypedFields(o, json) ==
    \A i \in 1..Len(json.v) :
        LET key == json.v[i][1]
            val == json.v[i][2]
            names == Classes[o.c].attribute_name_map
            held == SlotOf(o, "_" \o names[key])
        IN  key \in WireNames(o.c) =>
              /\ val.k \in {"int", "bool"} => held = val
              /\ val.k = "dict" /\ held.k = "obj" => TypedFields(held, val)
              /\ val.k = "list" /\ held.k = "list" /\ Len(held.v) = Len(val.v) =>
                    \A j \in 1..Len(val.v) :
                        /\ val.v[j].k = "int" => held.v[j] = val.v[j]
                        /\ val.v[j].k = "bool" => held.v[j].k = "bool"
                        /\ val.v[j].k = "dict" /\ held.v[j].k = "obj" => TypedFields(held.v[j], val.v[j])

\* C11 (faithfully typed scalars): an integer or boolean payload value is
\* stored in the field of the constructed object with its original type and
\* value, at any depth; integers 0 and 1 never become booleans nor booleans
\* integers, and {"code": 0, "message": ""} gives code integer 0 and
\* message the empty string.
TypedScalars ==
    /\ Finished /\ Result.k = "obj" /\ Payload.k = "dict" => TypedFields(Result, Payload)
    /\ Finished /\ Root = "Status" /\ Payload = GoodStatus
          => Result = ObjV("Status", <<<<"_code", IntV(0)>>, <<"_message", StrV("")>>>>)

\* the Status decoded from {"code": 0, "message": ""}: code is the integer 0
TypedScalarsWitness ==
    /\ phase = "decoded"
    /\ Root = "Status"
    /\ Payload = GoodStatus
    /\ Result.k = "obj"
    /\ SlotOf(Result, "_code") = IntV(0)
    /\ SlotOf(Result, "_message") = StrV("")

RECURSIVE TypeConforms(_, _)
\* value val has the runtime type the type string t declares: an instance
\* of the class, a list whose elements have the element type, an int for
\* 'int', a text for 'six.text_type'; the attributes of an instance that
\* are not None conform to the types its class declares
TypeConforms(val, t) ==
    IF InModule(t)
    THEN /\ val.k = "obj"
         /\ val.c = t[1]
         /\ \A i \in 1..Len(val.v) :
               val.v[i][2] = NoneV
               \/ TypeConforms(val.v[i][2], Classes[val.c].attribute_type_map[StripUnderscore(val.v[i][1])])
    ELSE IF HasList(t)
    THEN val.k = "list" /\ \A j \in 1..Len(val.v) : TypeConforms(val.v[j], SubSeq(t, 2, Len(t) - 1))
    ELSE IF t = TInt THEN val.k = "int"
    ELSE val.k = "str"

\* C12 (declared-type conformance): in every object graph that
\* dictionary_to_object returns, each attribute that is not None has the
\* runtime type its class declares in attribute_type_map, a list for
\* List[...], and every element of a list attribute has the declared
\* element type, through nested objects and lists.
DeclaredTypeConformance ==
    Finished /\ Result.k = "obj" => TypeConforms(Result, TCls(Result.c))

\* the name is not an attribute of the module during the first call
Unresolvable(name) == name \notin ModuleNames \ calls[1].missing

\* the field (key, val) of an object of class cls refers to a domain type
\* that cannot be resolved: val is an object and neither the capitalised key
\* nor its _class_name_map entry is a class of the module, or val is a
\* non-empty sequence declared List[X] with X a class name that is not one
RefersToUnresolved(cls, key, val) ==
    \/ /\ val.k = "dict"
       /\ Unresolvable(Capitalize(key))
       /\ key \in DOMAIN _class_name_map => Unresolvable(_class_name_map[key])
    \/ /\ val.k = "list" /\ Len(val.v) > 0
       /\ HasList(DeclaredType(cls, key))
       /\ IsDomainType(ElementType(DeclaredType(cls, key)))
       /\ Unresolvable(ElementType(DeclaredType(cls, key))[1])

codes_ok == 200

\* what the network does with a request: requests raises a
\* RequestException, or a response with a status code and a body arrives;
\* a body that is not JSON makes response.json() raise ValueError
RequestException == [k |-> "RequestException", status_code |-> 0, body |-> NoneV]
Response(status_code, body) == [k |-> "response", status_code |-> status_code, body |-> body]
NotJson == [k |-> "text", v |-> "<html>"]

\* the exception classes of pyecobee.exceptions
EcobeeException ==
    {"EcobeeApiException", "EcobeeAuthorizationException", "EcobeeHttpException",
     "EcobeeRequestsException"}

\* the outcome is an exception of one of the classes in excs
Raises(out, excs) == out.k = "raise" /\ out.v[1] \in excs

\* 'name in response.json()'
In(name, json) ==
    IF json.k = "dict" THEN name \in Keys(json)
    ELSE IF json.k = "list" THEN \E i \in 1..Len(json.v) : json.v[i] = StrV(name)
    ELSE FALSE

\* dictionary_to_object({key: json}, {key: cls}, {key: None}, is_top_level=True)
DictionaryToObject(key, json, d) == Run([c |-> NewCall(key, key, json), d |-> d])

\* what the caller of dictionary_to_object is left with once it has used the
\* result as an object (pretty_format(), .error, .code): the object, the
\* exception of the decode, or AttributeError for a result without attributes
Used(result) ==
    IF result.k \in {"obj", "raise"} THEN result ELSE RaiseV("AttributeError", "")

\* make_http_request without the except clause: the exception of requests
\* leaves the method as it is
MutMakeHttpRequest(wire) ==
    IF wire.k = "RequestException" THEN RaiseV("RequestException", "") ELSE wire

\* make_http_request: the response, or EcobeeRequestsException in place of
\* the RequestException raised by requests
MakeHttpRequest(wire) ==
    IF wire.k = "RequestException" THEN RaiseV("EcobeeRequestsException", "") ELSE wire

\* what process_http_response hands to dictionary_to_object: the class and
\* the JSON of the 200 branch, of the 'error' branch or of the 'status'
\* branch, and <<>> where it decodes nothing
ResponseProperties(response, response_class) ==
    IF response.body = NotJson THEN <<>>
    ELSE IF response.status_code = codes_ok THEN <<response_class, response.body>>
    ELSE IF In("error", response.body) THEN <<"EcobeeErrorResponse", response.body>>
    ELSE IF In("status", response.body) /\ response.body.k = "dict"
    THEN <<"Status", Get(response.body, "status")>>
    ELSE <<>>

\* the branches of process_http_response, decoded being the finished
\* dictionary_to_object call of the branch taken
Branch(response, d, decoded) ==
    IF response.body = NotJson
    THEN [out |-> RaiseV("ValueError", ""), calls |-> <<>>, d |-> d]
    ELSE IF response.status_code = codes_ok
    THEN [out |-> Used(decoded.c.result), calls |-> <<decoded.c>>, d |-> decoded.d]
    ELSE IF In("error", response.body)
    THEN [out |-> IF decoded.c.result.k = "obj"
                  THEN RaiseV("EcobeeAuthorizationException", "")
                  ELSE Used(decoded.c.result),
          calls |-> <<decoded.c>>, d |-> decoded.d]
    ELSE IF In("status", response.body) /\ response.body.k # "dict"
    THEN [out |-> RaiseV("TypeError", ""), calls |-> <<>>, d |-> d]
    ELSE IF In("status", response.body)
    THEN [out |-> IF decoded.c.result.k = "obj"
                  THEN RaiseV("EcobeeApiException", "")
                  ELSE Used(decoded.c.result),
          calls |-> <<decoded.c>>, d |-> decoded.d]
    ELSE [out |-> RaiseV("EcobeeHttpException", ""), calls |-> <<>>, d |-> d]

\* the dictionary_to_object call of process_http_response, where it makes one
DecodeResponse(properties, d) ==
    IF properties = <<>> THEN [c |-> NewCall("", "", NoneV), d |-> d]
    ELSE DictionaryToObject(properties[1], properties[2], d)

\* process_http_response(response, response_class): out is the object
\* returned or the exception raised, calls the dictionary_to_object call made
\* and d the default list it leaves
ProcessHttpResponse(response, response_class, d) ==
    Branch(response, d, DecodeResponse(ResponseProperties(response, response_class), d))

\* a string of comma separated entries, kept as the sequence of its entries;
\* the empty string has the one entry ''
Csv(entries) == [k |-> "str", v |-> entries]

\* text.split(',')
Split(text) == text.v

\* n entries x
Repeat(x, n) == [i \in 1..n |-> x]

\* a Selection object (pyecobee.objects.selection) with its two required
\* attributes
Selection(selection_type, selection_match) ==
    ObjV("Selection", <<<<"_selection_type", StrV(selection_type)>>,
                        <<"_selection_match", Csv(selection_match)>>>>)

\* isinstance(x, Selection)
IsSelection(x) == x.k = "obj" /\ x.c = "Selection"

\* the arguments handed to requests: the method, the URL and the dictionary
\* sent as query parameter or as JSON body
Request(method, url, dictionary) == [method |-> method, url |-> url, dictionary |-> dictionary]

\* the method raises exc before it builds a request
Refuse(op, args, exc) ==
    /\ sent' = <<>>
    /\ svc' = [op |-> op, args |-> args, response_class |-> "", wire |-> NoneV,
               out |-> RaiseV(exc, "")]
    /\ calls' = <<>>
    /\ phase' = "returned"
    /\ UNCHANGED <<dflt, encoded, memo, tokens>>

\* the outcome of __make_http_request followed by __process_http_response
MakeAndProcess(response, response_class, d) ==
    IF response.k = "raise" THEN [out |-> response, calls |-> <<>>, d |-> d]
    ELSE ProcessHttpResponse(response, response_class, d)

\* the method leaves with the outcome p of its request
Deliver(op, args, response_class, wire, p) ==
    /\ svc' = [op |-> op, args |-> args, response_class |-> response_class,
               wire |-> wire, out |-> p.out]
    /\ calls' = p.calls
    /\ dflt' = p.d

\* response = __make_http_request(...); return __process_http_response(
\* response, response_class)
Send(op, args, request, response_class, wire) ==
    /\ sent' = <<request>>
    /\ Deliver(op, args, response_class, wire,
              MakeAndProcess(MakeHttpRequest(wire), response_class, dflt))
    /\ phase' = "returned"
    /\ UNCHANGED <<encoded, memo, tokens>>

\* the caller is done with the outcome of the method
Drop ==
    /\ phase = "returned"
    /\ phase' = "idle"
    /\ sent' = <<>>
    /\ svc' = NoService
    /\ calls' = <<>>
    /\ UNCHANGED <<dflt, encoded, memo, tokens>>

\* ---- responses of the server
GoodSummary ==
    DictV(<<<<"revisionList", ListV(<<StrV("a")>>)>>, <<"thermostatCount", IntV(1)>>,
            <<"statusList", ListV(<<StrV("a")>>)>>, <<"status", GoodStatus>>>>)

\* an OAuth error, whole and with members left out or added
ErrorBodies ==
    {DictV(<<<<"error", StrV("a")>>, <<"error_description", StrV("x")>>, <<"error_uri", StrV("x")>>>>),
     DictV(<<<<"error", StrV("a")>>, <<"error_description", StrV("x")>>>>),
     DictV(<<<<"error", StrV("a")>>>>),
     DictV(<<<<"error", StrV("a")>>, <<"error_description", StrV("x")>>, <<"error_uri", StrV("x")>>,
             <<"status", DictV(<<<<"code", IntV(1)>>, <<"message", StrV("x")>>>>)>>>>)}

\* an API error, whole and with members left out
StatusBodies ==
    {DictV(<<<<"status", DictV(<<<<"code", IntV(1)>>, <<"message", StrV("x")>>>>)>>>>),
     DictV(<<<<"status", DictV(<<<<"code", IntV(1)>>>>)>>>>),
     DictV(<<<<"status", GoodStatus>>>>)}

OtherBodies == {DictV(<<>>), ListV(<<>>), NotJson}

StatusCodes == {codes_ok, 401, 500}

\* the network outcomes of a call answered with one of bodies
Wires(bodies) ==
    {RequestException} \cup {Response(c, b) : c \in StatusCodes, b \in bodies}

SummarySelections == {Selection("registered", <<"">>), Selection("thermostats", <<"123">>), NoneV}

\* EcobeeService.request_thermostats_summary(selection)
RequestThermostatsSummary ==
    /\ phase = "idle"
    /\ \E selection \in SummarySelections,
          wire \in Wires({GoodSummary} \cup ErrorBodies \cup StatusBodies \cup OtherBodies) :
           IF ~IsSelection(selection)
           THEN Refuse("request_thermostats_summary", [selection |-> selection], "TypeError")
           ELSE Send("request_thermostats_summary", [selection |-> selection],
                     Request("get", "thermostatSummary", [selection |-> selection]),
                     "EcobeeThermostatsSummaryResponse", wire)

\* ---- reports
\* date-times are whole hours since 2008-01-02 00:00:00 UTC
HoursPerDay == 24

\* EcobeeService.BEFORE_TIME_BEGAN_DATE_TIME
BEFORE_TIME_BEGAN_DATE_TIME == 0

\* EcobeeService.END_OF_TIME_DATE_TIME, 2035-01-01 00:00:00 UTC
END_OF_TIME_DATE_TIME == 236664

\* timedelta.days of a non-negative difference: the whole days in it
Days(delta) == delta \div HoursPerDay

\* (end_date_time - start_date_time).days > 31
PeriodTooLong(start_date_time, end_date_time) ==
    Days(end_date_time - start_date_time) > 31

\* the first exception of the date-time checks the two report methods share,
\* "" when they pass
ReportPeriodError(start_date_time, end_date_time) ==
    IF start_date_time < BEFORE_TIME_BEGAN_DATE_TIME THEN "ValueError"
    ELSE IF start_date_time > END_OF_TIME_DATE_TIME THEN "ValueError"
    ELSE IF end_date_time < BEFORE_TIME_BEGAN_DATE_TIME THEN "ValueError"
    ELSE IF end_date_time > END_OF_TIME_DATE_TIME THEN "ValueError"
    ELSE IF start_date_time >= end_date_time THEN "ValueError"
    ELSE IF PeriodTooLong(start_date_time, end_date_time) THEN "ValueError"
    ELSE ""

\* the checks on the selection the two report methods share, without the
\* limit of 25 thermostats
MutReportSelectionError(selection) ==
    IF ~IsSelection(selection) THEN "TypeError"
    ELSE IF SlotOf(selection, "_selection_type") # StrV("thermostats") THEN "ValueError"
    ELSE ""

\* the checks on the selection the two report methods share
ReportSelectionError(selection) ==
    IF ~IsSelection(selection) THEN "TypeError"
    ELSE IF SlotOf(selection, "_selection_type") # StrV("thermostats") THEN "ValueError"
    ELSE IF Len(Split(SlotOf(selection, "_selection_match"))) > 25 THEN "ValueError"
    ELSE ""

\* the checks of request_meter_reports on meters
MetersError(selection, meters) ==
    IF \E i \in 1..Len(Split(meters)) : Split(meters)[i] # "energy" THEN "ValueError"
    ELSE IF Len(Split(SlotOf(selection, "_selection_match"))) # Len(Split(meters)) THEN "ValueError"
    ELSE ""

\* startDate/endDate and startInterval/endInterval of the request; a date is
\* kept as its day
ReportDate(date_time) == date_time \div HoursPerDay
ReportInterval(date_time) == (date_time % HoursPerDay) * 12

ReportDictionary(selection, start_date_time, end_date_time) ==
    [selection |-> selection,
     startDate |-> ReportDate(start_date_time), startInterval |-> ReportInterval(start_date_time),
     endDate |-> ReportDate(end_date_time), endInterval |-> ReportInterval(end_date_time)]

\* the numbers of thermostats and of meters tried
Counts == {1, 2, 25, 26}

ReportSelections ==
    {Selection("thermostats", Repeat("123", n)) : n \in Counts}
        \cup {Selection("registered", <<"">>)}

StartTimes == {BEFORE_TIME_BEGAN_DATE_TIME - 1, BEFORE_TIME_BEGAN_DATE_TIME, 12}

\* the periods tried, in hours: none, an hour, 31 days, 31 days and an hour,
\* an hour less than 32 days, 32 days
Periods == {0, 1, 31 * HoursPerDay, 31 * HoursPerDay + 1, 32 * HoursPerDay - 1, 32 * HoursPerDay}

EndTimes == {s + p : s \in StartTimes, p \in Periods} \cup {END_OF_TIME_DATE_TIME + 1}

MeterChoices ==
    {Csv(Repeat("energy", n)) : n \in Counts} \cup {Csv(<<"gas">>), Csv(<<"energy", "gas">>)}

GoodMeterReports == DictV(<<<<"reportList", ListV(<<>>)>>, <<"status", GoodStatus>>>>)

GoodRuntimeReports ==
    DictV(<<<<"startDate", StrV("a")>>, <<"startInterval", IntV(0)>>,
            <<"endDate", StrV("a")>>, <<"endInterval", IntV(1)>>, <<"columns", StrV("x")>>,
            <<"reportList", ListV(<<>>)>>, <<"sensorList", ListV(<<>>)>>,
            <<"status", GoodStatus>>>>)

\* the network outcomes tried for a report request
ReportWires(good) ==
    {RequestException, Response(codes_ok, good),
     Response(500, DictV(<<<<"status", DictV(<<<<"code", IntV(1)>>, <<"message", StrV("x")>>>>)>>>>))}

\* EcobeeService.request_meter_reports(selection, start_date_time,
\* end_date_time, meters)
RequestMeterReports ==
    /\ phase = "idle"
    /\ \E selection \in ReportSelections, start_date_time \in StartTimes,
          end_date_time \in EndTimes, meters \in MeterChoices,
          wire \in ReportWires(GoodMeterReports) :
           LET args == [selection |-> selection, start_date_time |-> start_date_time,
                        end_date_time |-> end_date_time, meters |-> meters]
               op == "request_meter_reports"
           IN  IF ReportSelectionError(selection) # ""
               THEN Refuse(op, args, ReportSelectionError(selection))
               ELSE IF ReportPeriodError(start_date_time, end_date_time) # ""
               THEN Refuse(op, args, ReportPeriodError(start_date_time, end_date_time))
               ELSE IF MetersError(selection, meters) # ""
               THEN Refuse(op, args, MetersError(selection, meters))
               ELSE Send(op, args,
                         Request("get", "meterReport",
                                 [body |-> ReportDictionary(selection, start_date_time, end_date_time),
                                  meters |-> meters]),
                         "EcobeeMeterReportsResponse", wire)

\* EcobeeService.request_runtime_reports(selection, start_date_time,
\* end_date_time, columns)
RequestRuntimeReports ==
    /\ phase = "idle"
    /\ \E selection \in ReportSelections, start_date_time \in StartTimes,
          end_date_time \in EndTimes, wire \in ReportWires(GoodRuntimeReports) :
           LET args == [selection |-> selection, start_date_time |-> start_date_time,
                        end_date_time |-> end_date_time, columns |-> Csv(<<"x">>)]
               op == "request_runtime_reports"
           IN  IF ReportSelectionError(selection) # ""
               THEN Refuse(op, args, ReportSelectionError(selection))
               ELSE IF ReportPeriodError(start_date_time, end_date_time) # ""
               THEN Refuse(op, args, ReportPeriodError(start_date_time, end_date_time))
               ELSE Send(op, args,
                         Request("get", "runtimeReport",
                                 [body |-> ReportDictionary(selection, start_date_time, end_date_time),
                                  columns |-> Csv(<<"x">>), includeSensors |-> FALSE]),
                         "EcobeeRuntimeReportsResponse", wire)

\* ---- holds
\* an argument the caller does not supply
Absent == [k |-> "absent", v |-> ""]

\* a datetime argument, in whole hours since 2008-01-02 00:00:00 UTC
DateTime(hours) == [k |-> "datetime", v |-> hours]

\* EcobeeService.MINIMUM_COOLING_TEMPERATURE and the other three limits
MINIMUM_COOLING_TEMPERATURE == -10
MAXIMUM_COOLING_TEMPERATURE == 120
MINIMUM_HEATING_TEMPERATURE == 45
MAXIMUM_HEATING_TEMPERATURE == 120

\* the truth value Python gives x in 'if x:'
Truthy(x) ==
    CASE x.k = "none" -> FALSE
      [] x.k = "int" -> x.v # 0
      [] x.k = "bool" -> x.v
      [] x.k = "str" -> x.v # ""
      [] x.k \in {"list", "dict"} -> x.v # <<>>
      [] OTHER -> TRUE

\* the value a keyword parameter is bound to
Default(x, default) == IF x = Absent THEN default ELSE x

\* the checks on start_date_time, end_date_time, hold_type and hold_hours
\* that set_hold, set_occupied and control_plug share: TRUE when one of them
\* raises ValueError
HoldError(start_date_time, end_date_time, hold_type, hold_hours) ==
    \/ /\ start_date_time # NoneV
       /\ \/ start_date_time.v < BEFORE_TIME_BEGAN_DATE_TIME
          \/ start_date_time.v > END_OF_TIME_DATE_TIME
    \/ /\ end_date_time # NoneV
       /\ \/ end_date_time.v < BEFORE_TIME_BEGAN_DATE_TIME
          \/ end_date_time.v > END_OF_TIME_DATE_TIME
    \/ start_date_time # NoneV /\ end_date_time # NoneV /\ start_date_time.v >= end_date_time.v
    \/ hold_type = "dateTime" /\ end_date_time = NoneV
    \/ hold_type = "holdHours" /\ hold_hours = NoneV

\* the entry of the params dictionary made under 'if value:'
IfTruthy(value, name, entry) == IF Truthy(value) THEN name :> entry ELSE <<>>

\* startDate, startTime, endDate, endTime and holdHours of the params; a date
\* is kept as its day and a time as its hour
HoldParams(start_date_time, end_date_time, hold_hours) ==
    IfTruthy(start_date_time, "startDate", IntV(ReportDate(start_date_time.v)))
        @@ IfTruthy(start_date_time, "startTime", IntV(start_date_time.v % HoursPerDay))
        @@ IfTruthy(end_date_time, "endDate", IntV(ReportDate(end_date_time.v)))
        @@ IfTruthy(end_date_time, "endTime", IntV(end_date_time.v % HoursPerDay))
        @@ IfTruthy(hold_hours, "holdHours", hold_hours)

\* Function(type=type, params=params)
Function(type, params) == [type |-> type, params |-> params]

GoodUpdate == DictV(<<<<"status", GoodStatus>>>>)

\* the network outcomes tried for an update request
UpdateWires ==
    {RequestException, Response(codes_ok, GoodUpdate),
     Response(500, DictV(<<<<"status", DictV(<<<<"code", IntV(1)>>, <<"message", StrV("x")>>>>)>>>>))}

\* EcobeeService.update_thermostats(selection, thermostat=None,
\* functions=functions), called by the method op
UpdateThermostats(op, args, selection, functions, wire) ==
    IF ~IsSelection(selection)
    THEN Refuse(op, args, "TypeError")
    ELSE Send(op, args,
              Request("post", "thermostat", [selection |-> selection, functions |-> functions]),
              "EcobeeStatusResponse", wire)

HoldTypes == {"holdHours", "indefinite", "nextTransition", "dateTime"}
HoldHours == {NoneV, IntV(0), IntV(2)}
HoldStarts == {NoneV, DateTime(0), DateTime(12)}
HoldEnds == {NoneV, DateTime(12), DateTime(24)}
HoldTemps == {Absent, NoneV, IntV(0), IntV(72), IntV(121)}
ClimateRefs == {Absent, NoneV, StrV("away")}

\* the default of the parameter selection
RegisteredSelection == Selection("registered", <<"">>)

\* the checks of set_hold on its targets without the last one, 'if
\* hold_climate_ref is None and (cool_hold_temp is None or heat_hold_temp is
\* None)'
MutSetHoldTargetError(cool_hold_temp, heat_hold_temp, hold_climate_ref) ==
    \/ /\ cool_hold_temp # NoneV
       /\ ~(MINIMUM_COOLING_TEMPERATURE <= cool_hold_temp.v
              /\ cool_hold_temp.v <= MAXIMUM_COOLING_TEMPERATURE)
    \/ /\ heat_hold_temp # NoneV
       /\ ~(MINIMUM_HEATING_TEMPERATURE <= heat_hold_temp.v
              /\ heat_hold_temp.v <= MAXIMUM_HEATING_TEMPERATURE)
    \/ cool_hold_temp = NoneV /\ heat_hold_temp = NoneV /\ hold_climate_ref = NoneV

\* the checks of set_hold on its targets: TRUE when one raises ValueError
SetHoldTargetError(cool_hold_temp, heat_hold_temp, hold_climate_ref) ==
    \/ /\ cool_hold_temp # NoneV
       /\ ~(MINIMUM_COOLING_TEMPERATURE <= cool_hold_temp.v
              /\ cool_hold_temp.v <= MAXIMUM_COOLING_TEMPERATURE)
    \/ /\ heat_hold_temp # NoneV
       /\ ~(MINIMUM_HEATING_TEMPERATURE <= heat_hold_temp.v
              /\ heat_hold_temp.v <= MAXIMUM_HEATING_TEMPERATURE)
    \/ cool_hold_temp = NoneV /\ heat_hold_temp = NoneV /\ hold_climate_ref = NoneV
    \/ hold_climate_ref = NoneV /\ (cool_hold_temp = NoneV \/ heat_hold_temp = NoneV)

\* set_hold_parameters
SetHoldParameters(cool_hold_temp, heat_hold_temp, hold_climate_ref, start_date_time, end_date_time, hold_type, hold_hours) ==
    ("holdType" :> StrV(hold_type))
        @@ IfTruthy(cool_hold_temp, "coolHoldTemp", IntV(cool_hold_temp.v * 10))
        @@ IfTruthy(heat_hold_temp, "heatHoldTemp", IntV(heat_hold_temp.v * 10))
        @@ IfTruthy(hold_climate_ref, "holdClimateRef", hold_climate_ref)
        @@ HoldParams(start_date_time, end_date_time, hold_hours)

\* EcobeeService.set_hold(cool_hold_temp, heat_hold_temp, hold_climate_ref,
\* start_date_time, end_date_time, hold_type, hold_hours); cool_hold_temp and
\* heat_hold_temp have no default
SetHold ==
    /\ phase = "idle"
    /\ \E cool_hold_temp \in HoldTemps, heat_hold_temp \in HoldTemps,
          climate_ref \in ClimateRefs, start_date_time \in HoldStarts,
          end_date_time \in HoldEnds, hold_type \in HoldTypes, hold_hours \in HoldHours,
          wire \in UpdateWires :
           LET args == [cool_hold_temp |-> cool_hold_temp, heat_hold_temp |-> heat_hold_temp,
                        hold_climate_ref |-> climate_ref,
                        start_date_time |-> start_date_time, end_date_time |-> end_date_time,
                        hold_type |-> hold_type, hold_hours |-> hold_hours]
               hold_climate_ref == Default(climate_ref, NoneV)
           IN  IF cool_hold_temp = Absent \/ heat_hold_temp = Absent
               THEN Refuse("set_hold", args, "TypeError")
               ELSE IF \/ SetHoldTargetError(cool_hold_temp, heat_hold_temp, hold_climate_ref)
                       \/ HoldError(start_date_time, end_date_time, hold_type, hold_hours)
               THEN Refuse("set_hold", args, "ValueError")
               ELSE UpdateThermostats("set_hold", args, RegisteredSelection,
                        <<Function("setHold",
                                   SetHoldParameters(cool_hold_temp, heat_hold_temp,
                                                     hold_climate_ref, start_date_time,
                                                     end_date_time, hold_type, hold_hours))>>,
                        wire)

\* EcobeeService.set_occupied(occupied, start_date_time, end_date_time,
\* hold_type, hold_hours)
SetOccupied ==
    /\ phase = "idle"
    /\ \E occupied \in {BoolV(FALSE), BoolV(TRUE)}, start_date_time \in HoldStarts,
          end_date_time \in HoldEnds, hold_type \in HoldTypes, hold_hours \in HoldHours,
          wire \in UpdateWires :
           LET args == [occupied |-> occupied,
                        start_date_time |-> start_date_time, end_date_time |-> end_date_time,
                        hold_type |-> hold_type, hold_hours |-> hold_hours]
           IN  IF HoldError(start_date_time, end_date_time, hold_type, hold_hours)
               THEN Refuse("set_occupied", args, "ValueError")
               ELSE UpdateThermostats("set_occupied", args, RegisteredSelection,
                        <<Function("setOccupied",
                                   ("occupied" :> occupied @@ "holdType" :> StrV(hold_type))
                                       @@ HoldParams(start_date_time, end_date_time, hold_hours))>>,
                        wire)

\* EcobeeService.control_plug(plug_name, plug_state, start_date_time,
\* end_date_time, hold_type, hold_hours)
ControlPlug ==
    /\ phase = "idle"
    /\ \E plug_state \in {"on", "off", "resume"}, start_date_time \in HoldStarts,
          end_date_time \in HoldEnds, hold_type \in HoldTypes, hold_hours \in HoldHours,
          wire \in UpdateWires :
           LET args == [plug_name |-> StrV("x"), plug_state |-> plug_state,
                        start_date_time |-> start_date_time, end_date_time |-> end_date_time,
                        hold_type |-> hold_type, hold_hours |-> hold_hours]
           IN  IF HoldError(start_date_time, end_date_time, hold_type, hold_hours)
               THEN Refuse("control_plug", args, "ValueError")
               ELSE UpdateThermostats("control_plug", args, RegisteredSelection,
                        <<Function("controlPlug",
                                   ("plugName" :> StrV("x") @@ "plugState" :> StrV(plug_state)
                                        @@ "holdType" :> StrV(hold_type))
                                       @@ HoldParams(start_date_time, end_date_time, hold_hours))>>,
                        wire)

\* ---- update_thermostats called with a list of functions
MaxFunctions == 3    \* longest functions argument

\* Function(type=type, params=params), the object
FunctionObject(type, params) == ObjV("Function", <<<<"_type", StrV(type)>>, <<"_params", params>>>>)

\* isinstance(x, Function), isinstance(x, Thermostat)
IsFunction(x) == x.k = "obj" /\ x.c = "Function"
IsThermostat(x) == x.k = "obj" /\ x.c = "Thermostat"

FunctionObjects ==
    {FunctionObject("resumeProgram", DictV(<<<<"resumeAll", BoolV(FALSE)>>>>)),
     FunctionObject("sendMessage", DictV(<<<<"text", StrV("a")>>>>)),
     FunctionObject("acknowledge", NoneV)}

\* the functions arguments: None, lists of functions with repetitions, lists
\* with a member that is not a Function, and values that are not lists
FunctionsArguments ==
    {NoneV, StrV("x"), FunctionObject("resumeProgram", NoneV)}
    \cup {ListV(q) : q \in SeqsUpTo(FunctionObjects \cup {StrV("a")}, MaxFunctions)}

ThermostatArguments ==
    {NoneV, StrV("x"),
     ObjV("Thermostat", <<<<"_identifier", StrV("123")>>, <<"_remote_sensors", NoneV>>>>)}

\* the checks of update_thermostats: TRUE when one raises TypeError
UpdateTypeError(selection, thermostat, functions) ==
    \/ ~IsSelection(selection)
    \/ thermostat # NoneV /\ ~IsThermostat(thermostat)
    \/ functions # NoneV /\ functions.k # "list"
    \/ functions # NoneV /\ \E i \in 1..Len(functions.v) : ~IsFunction(functions.v[i])

\* the list comprehension without its order: the later function first
MutEncodeFunctions(functions) ==
    [i \in 1..Len(functions) |->
        ObjectToDictionary(functions[Len(functions) + 1 - i], functions[Len(functions) + 1 - i].c)]

\* [utilities.object_to_dictionary(function_, type(function_)) for function_
\* in functions]
EncodeFunctions(functions) ==
    [i \in 1..Len(functions) |-> ObjectToDictionary(functions[i], functions[i].c)]

\* the dictionary update_thermostats sends as JSON body
UpdateDictionary(selection, thermostat, functions) ==
    ("selection" :> ObjectToDictionary(selection, selection.c))
        @@ IfTruthy(thermostat, "thermostat", ObjectToDictionary(thermostat, thermostat.c))
        @@ IfTruthy(functions, "functions", ListV(EncodeFunctions(functions.v)))

\* EcobeeService.update_thermostats(selection, thermostat, functions), called
\* by the user of the library
UpdateThermostatsCall ==
    /\ phase = "idle"
    /\ \E selection \in {RegisteredSelection, NoneV}, thermostat \in ThermostatArguments,
          functions \in FunctionsArguments, wire \in UpdateWires :
           LET args == [selection |-> selection, thermostat |-> thermostat,
                        functions |-> functions]
           IN  IF UpdateTypeError(selection, thermostat, functions)
               THEN Refuse("update_thermostats", args, "TypeError")
               ELSE Send("update_thermostats", args,
                         Request("post", "thermostat",
                                 UpdateDictionary(selection, thermostat, functions)),
                         "EcobeeStatusResponse", wire)

NextService ==
    \/ RequestThermostatsSummary
    \/ RequestMeterReports
    \/ RequestRuntimeReports
    \/ SetHold
    \/ SetOccupied
    \/ ControlPlug
    \/ UpdateThermostatsCall
    \/ Drop

SpecService == Init /\ [][NextService]_vars

\* --------------------------------------------------------------- tokens
\* times are whole seconds since the construction of the service
SecondsPerDay == 86400

\* timedelta(days=365)
RefreshTokenLifetime == 365 * SecondsPerDay

\* a datetime, as the second it names
Instant(seconds) == [k |-> "datetime", v |-> seconds]

\* timedelta(seconds=x) takes a number and raises TypeError for anything else
IsNumber(x) == x.k = "int"

\* authorize: self._authorization_token = authorize_response.code
StoreCode(s, r) ==
    IF r.k # "obj" THEN s ELSE [s EXCEPT !.authorization_token = SlotOf(r, "_code")]

\* the four assignments, with the expiry of the access token counted from
\* the expiry of the refresh token
MutStoreTokens(s, r, now_utc) ==
    IF r.k # "obj" THEN s
    ELSE IF ~IsNumber(SlotOf(r, "_expires_in"))
    THEN [s EXCEPT !.access_token = SlotOf(r, "_access_token")]
    ELSE [s EXCEPT !.access_token = SlotOf(r, "_access_token"),
                   !.access_token_expires_on =
                       Instant(now_utc + RefreshTokenLifetime + SlotOf(r, "_expires_in").v),
                   !.refresh_token = SlotOf(r, "_refresh_token"),
                   !.refresh_token_expires_on = Instant(now_utc + RefreshTokenLifetime)]

\* request_tokens and refresh_tokens: the four assignments that follow
\* __process_http_response, in their order; the TypeError of timedelta
\* ends them after the first
StoreTokens(s, r, now_utc) ==
    IF r.k # "obj" THEN s
    ELSE IF ~IsNumber(SlotOf(r, "_expires_in"))
    THEN [s EXCEPT !.access_token = SlotOf(r, "_access_token")]
    ELSE [s EXCEPT !.access_token = SlotOf(r, "_access_token"),
                   !.access_token_expires_on = Instant(now_utc + SlotOf(r, "_expires_in").v),
                   !.refresh_token = SlotOf(r, "_refresh_token"),
                   !.refresh_token_expires_on = Instant(now_utc + RefreshTokenLifetime)]

\* the token attributes after the method op was left with the outcome r of
\* __process_http_response
Stored(op, s, r, now_utc) ==
    IF op = "authorize" THEN StoreCode(s, r) ELSE StoreTokens(s, r, now_utc)

\* what the method op returns or raises after the outcome r of
\* __process_http_response
Returned(op, r) ==
    IF op # "authorize" /\ r.k = "obj" /\ ~IsNumber(SlotOf(r, "_expires_in"))
    THEN RaiseV("TypeError", "")
    ELSE r

\* the method leaves with the outcome p of its request, now_utc being the
\* time it read before the request
Settle(op, args, response_class, wire, now_utc, p) ==
    /\ svc' = [op |-> op, args |-> args, response_class |-> response_class,
               wire |-> wire, out |-> Returned(op, p.out)]
    /\ calls' = p.calls
    /\ dflt' = p.d
    /\ self' = Stored(op, self, p.out, now_utc)

\* bound on the number of times the clock is advanced
MaxTicks == 3

\* the time the clock shows after delay more seconds
Advanced(delay) ==
    [now |-> clock.now + delay, ticks |-> clock.ticks + (IF delay > 0 THEN 1 ELSE 0)]

\* the seconds a request can take
Latencies == IF clock.ticks < MaxTicks THEN {0, 1} ELSE {0}

\* the body of a token method from its request on: the request is sent, the
\* response takes latency seconds to arrive, is processed and stored
TokenCall(op, args, request, response_class, wire, latency) ==
    /\ sent' = <<request>>
    /\ Settle(op, args, response_class, wire, clock.now,
              MakeAndProcess(MakeHttpRequest(wire), response_class, dflt))
    /\ clock' = Advanced(latency)
    /\ phase' = "returned"
    /\ UNCHANGED <<encoded, memo>>

\* the first exception of the checks on response_type and grant_type, ""
\* when they pass
GrantError(given, expected) ==
    IF given.k # "str" THEN "TypeError"
    ELSE IF given # StrV(expected) THEN "ValueError"
    ELSE ""

\* the application key the service was constructed with
application_key == StrV("key")

\* ---- responses of the token endpoints
AuthorizeBody(code) ==
    DictV(<<<<"ecobeePin", StrV("a")>>, <<"code", code>>, <<"scope", StrV("x")>>,
            <<"expires_in", IntV(1)>>, <<"interval", IntV(1)>>>>)

TokensBody(access_token, expires_in, refresh_token) ==
    DictV(<<<<"access_token", access_token>>, <<"token_type", StrV("x")>>,
            <<"expires_in", expires_in>>, <<"refresh_token", refresh_token>>,
            <<"scope", StrV("x")>>>>)

\* answers to authorize: the code, and a body without it
AuthorizeBodies ==
    {AuthorizeBody(StrV("a")), AuthorizeBody(StrV("x")),
     DictV(<<<<"ecobeePin", StrV("a")>>>>)}

\* expires_in as a server can send it: seconds, null or text
Lifetimes == {IntV(1), IntV(2), NoneV, StrV("x")}

\* answers to a token request: the tokens, and a body without expires_in
TokensBodies ==
    {TokensBody(StrV("a"), e, StrV("x")) : e \in Lifetimes}
    \cup {TokensBody(StrV("x"), IntV(1), StrV("a")),
          DictV(<<<<"access_token", StrV("a")>>, <<"refresh_token", StrV("x")>>>>)}

\* an OAuth error and a body that is not JSON
FailureBodies ==
    {DictV(<<<<"error", StrV("a")>>, <<"error_description", StrV("x")>>,
             <<"error_uri", StrV("x")>>>>), NotJson}

ResponseTypes == {StrV("ecobeePin"), StrV("x"), NoneV}
GrantTypes == {StrV("ecobeePin"), StrV("refresh_token"), NoneV}

\* EcobeeService.authorize(response_type)
Authorize ==
    /\ phase = "idle"
    /\ \E response_type \in ResponseTypes, wire \in Wires(AuthorizeBodies \cup FailureBodies),
          latency \in Latencies :
           IF GrantError(response_type, "ecobeePin") # ""
           THEN Refuse("authorize", [response_type |-> response_type],
                       GrantError(response_type, "ecobeePin"))
           ELSE /\ TokenCall("authorize", [response_type |-> response_type],
                             Request("get", "authorize",
                                     [client_id |-> application_key,
                                      response_type |-> response_type]),
                             "EcobeeAuthorizeResponse", wire, latency)
                /\ UNCHANGED main

\* EcobeeService.request_tokens(grant_type)
RequestTokens ==
    /\ phase = "idle"
    /\ \E grant_type \in GrantTypes, wire \in Wires(TokensBodies \cup FailureBodies),
          latency \in Latencies :
           IF GrantError(grant_type, "ecobeePin") # ""
           THEN Refuse("request_tokens", [grant_type |-> grant_type],
                       GrantError(grant_type, "ecobeePin"))
           ELSE /\ TokenCall("request_tokens", [grant_type |-> grant_type],
                             Request("post", "token",
                                     [client_id |-> application_key,
                                      code |-> self.authorization_token,
                                      grant_type |-> grant_type]),
                             "EcobeeTokensResponse", wire, latency)
                /\ UNCHANGED main

\* EcobeeService.refresh_tokens(grant_type)
RefreshTokens ==
    /\ phase = "idle"
    /\ \E grant_type \in GrantTypes, wire \in Wires(TokensBodies \cup FailureBodies),
          latency \in Latencies :
           IF GrantError(grant_type, "refresh_token") # ""
           THEN Refuse("refresh_tokens", [grant_type |-> grant_type],
                       GrantError(grant_type, "refresh_token"))
           ELSE /\ TokenCall("refresh_tokens", [grant_type |-> grant_type],
                             Request("post", "token",
                                     [client_id |-> application_key,
                                      code |-> self.refresh_token,
                                      grant_type |-> grant_type]),
                             "EcobeeTokensResponse", wire, latency)
                /\ UNCHANGED main

\* the seconds that can pass between two calls
Delays == {1, 2, RefreshTokenLifetime}

\* time passes
Tick ==
    /\ phase = "idle"
    /\ clock.ticks < MaxTicks
    /\ \E delay \in Delays : clock' = Advanced(delay)
    /\ UNCHANGED <<dflt, calls, phase, encoded, memo, service, self, main>>

NextTokens ==
    \/ Authorize
    \/ RequestTokens
    \/ RefreshTokens
    \/ Tick
    \/ Drop

SpecTokens == Init /\ [][NextTokens]_vars

\* ---- the driver (tests/test.py)
\* 'now_utc > expires_on' for an expiry that is a datetime
Past(now_utc, expires_on) == now_utc > expires_on.v

\* the expiry check without its elif: the access token is never refreshed
MutExpiryBranch(s, now_utc) ==
    IF s.refresh_token_expires_on.k # "datetime" THEN ""
    ELSE IF Past(now_utc, s.refresh_token_expires_on) THEN "expired"
    ELSE "done"

\* where main goes on after the expiry check of the service s at now_utc:
\* "expired" is authorize followed by request_tokens, "stale" is
\* refresh_tokens, "done" the statement after the check and "" the end of
\* the run in the TypeError of comparing a datetime with None
ExpiryBranch(s, now_utc) ==
    IF s.refresh_token_expires_on.k # "datetime" THEN ""
    ELSE IF Past(now_utc, s.refresh_token_expires_on) THEN "expired"
    ELSE IF s.access_token_expires_on.k # "datetime" THEN ""
    ELSE IF Past(now_utc, s.access_token_expires_on) THEN "stale"
    ELSE "done"

\* answers of the server to the driver: the code or an OAuth error, and the
\* tokens, tokens without a lifetime or no answer
DriverWires(op) ==
    IF op = "authorize"
    THEN {Response(codes_ok, AuthorizeBody(StrV("a"))),
          Response(401, DictV(<<<<"error", StrV("a")>>, <<"error_description", StrV("x")>>,
                                <<"error_uri", StrV("x")>>>>))}
    ELSE {Response(codes_ok, TokensBody(StrV("a"), IntV(1), StrV("x"))),
          Response(codes_ok, TokensBody(StrV("x"), IntV(2), StrV("a"))),
          Response(codes_ok, TokensBody(StrV("a"), NoneV, StrV("x"))),
          RequestException}

\* the request the method op makes when called without arguments
DefaultRequest(op) ==
    IF op = "authorize"
    THEN Request("get", "authorize",
                 [client_id |-> application_key, response_type |-> StrV("ecobeePin")])
    ELSE IF op = "request_tokens"
    THEN Request("post", "token",
                 [client_id |-> application_key, code |-> self.authorization_token,
                  grant_type |-> StrV("ecobeePin")])
    ELSE Request("post", "token",
                 [client_id |-> application_key, code |-> self.refresh_token,
                  grant_type |-> StrV("refresh_token")])

\* the helpers authorize, request_tokens and refresh_tokens of the driver:
\* the method is called without arguments and, when it returns, the service
\* is persisted to the shelf and main goes on at next; an exception ends
\* the run
Helper(op, response_class, next) ==
    \E wire \in DriverWires(op), latency \in Latencies :
        /\ TokenCall(op, <<>>, DefaultRequest(op), response_class, wire, latency)
        /\ main' = IF svc'.out.k = "obj"
                   THEN [main EXCEPT !.pc = next, !.shelf = self']
                   ELSE [main EXCEPT !.pc = ""]

\* main goes on at next without a call
Skip(next) ==
    /\ main' = [main EXCEPT !.pc = next]
    /\ UNCHANGED <<dflt, calls, phase, encoded, memo, service, self, clock>>

\* main, up to the service: the one on the shelf, or a new one
MainLoad ==
    /\ phase = "idle" /\ main.pc = ""
    /\ self' = IF main.shelf = NoneV THEN NewService ELSE main.shelf
    /\ main' = [main EXCEPT !.pc = "authorization", !.now_utc = NoneV]
    /\ UNCHANGED <<dflt, calls, phase, encoded, memo, service, clock>>

\* if not ecobee_service.authorization_token: authorize(ecobee_service)
MainAuthorization ==
    /\ phase = "idle" /\ main.pc = "authorization"
    /\ IF Truthy(self.authorization_token) THEN Skip("access")
       ELSE Helper("authorize", "EcobeeAuthorizeResponse", "access")

\* if not ecobee_service.access_token: request_tokens(ecobee_service)
MainAccess ==
    /\ phase = "idle" /\ main.pc = "access"
    /\ IF Truthy(self.access_token) THEN Skip("check")
       ELSE Helper("request_tokens", "EcobeeTokensResponse", "check")

\* now_utc = datetime.now(pytz.utc) and the two comparisons
MainCheck ==
    /\ phase = "idle" /\ main.pc = "check"
    /\ main' = [main EXCEPT !.pc = ExpiryBranch(self, clock.now), !.now_utc = clock.now]
    /\ UNCHANGED <<dflt, calls, phase, encoded, memo, service, self, clock>>

\* the refresh token expired: authorize(ecobee_service)
MainReauthorize ==
    /\ phase = "idle" /\ main.pc = "expired"
    /\ Helper("authorize", "EcobeeAuthorizeResponse", "reauthorized")

\* and request_tokens(ecobee_service)
MainRerequest ==
    /\ phase = "idle" /\ main.pc = "reauthorized"
    /\ Helper("request_tokens", "EcobeeTokensResponse", "done")

\* the access token expired: refresh_tokens(ecobee_service)
MainRefresh ==
    /\ phase = "idle" /\ main.pc = "stale"
    /\ Helper("refresh_tokens", "EcobeeTokensResponse", "done")

\* the run goes on with the service and ends
MainEnd ==
    /\ phase = "idle" /\ main.pc = "done"
    /\ Skip("")

NextDriver ==
    \/ MainLoad
    \/ MainAuthorization
    \/ MainAccess
    \/ MainCheck
    \/ MainReauthorize
    \/ MainRerequest
    \/ MainRefresh
    \/ MainEnd
    \/ Tick
    \/ Drop

SpecDriver == Init /\ [][NextDriver]_vars

\* C14: a call that got a response returns a decoded object of the response
\* class exactly when the status code is 200, and for any other status it
\* raises EcobeeAuthorizationException when the body has an 'error' key,
\* otherwise EcobeeApiException when the body has a 'status' key, otherwise
\* EcobeeHttpException.
HttpClassification ==
    svc.wire.k = "response" =>
        IF svc.wire.status_code = codes_ok
        THEN svc.out.k = "obj" /\ svc.out.c = svc.response_class
        ELSE IF In("error", svc.wire.body) THEN Raises(svc.out, {"EcobeeAuthorizationException"})
        ELSE IF In("status", svc.wire.body) THEN Raises(svc.out, {"EcobeeApiException"})
        ELSE Raises(svc.out, {"EcobeeHttpException"})

ReportPeriodLimit ==
    /\ svc.op \in {"request_meter_reports", "request_runtime_reports"}
    /\ svc.args.end_date_time - svc.args.start_date_time > 31 * HoursPerDay
    => Raises(svc.out, {"ValueError"}) /\ sent = <<>>

\* the arguments satisfy the four conditions on selection and meters
MeterSelectionValid(args) ==
    /\ SlotOf(args.selection, "_selection_type") = StrV("thermostats")
    /\ Len(Split(SlotOf(args.selection, "_selection_match"))) <= 25
    /\ \A i \in 1..Len(Split(args.meters)) : Split(args.meters)[i] = "energy"
    /\ Len(Split(args.meters)) = Len(Split(SlotOf(args.selection, "_selection_match")))

\* C18: request_meter_reports sends a request only when the selection type
\* is 'thermostats', the selection names at most 25 thermostats, every entry
\* of meters is 'energy' and meters has as many entries as the selection;
\* in every other case it raises ValueError and sends nothing.
MeterSelectionLimits ==
    svc.op = "request_meter_reports" =>
        /\ sent # <<>> => MeterSelectionValid(svc.args)
        /\ ~MeterSelectionValid(svc.args) => Raises(svc.out, {"ValueError"}) /\ sent = <<>>

MeterSelectionLimitsWitness ==
    /\ svc.op = "request_meter_reports"
    /\ Len(Split(SlotOf(svc.args.selection, "_selection_match"))) = 25
    /\ Len(sent) = 1 /\ sent[1].dictionary.meters = Csv(Repeat("energy", 25))
    /\ svc.out.k = "obj" /\ svc.out.c = "EcobeeMeterReportsResponse"

\* the functions of the requests the last method sent
SentFunctions ==
    UNION {{sent[i].dictionary.functions[j] : j \in 1..Len(sent[i].dictionary.functions)} :
              i \in 1..Len(sent)}

\* C16: set_hold called with hold_climate_ref and hold_type and nothing else
\* passes validation and sends exactly one 'setHold' function whose params
\* have holdClimateRef and holdType and neither coolHoldTemp nor heatHoldTemp.
SetHoldByClimateRef ==
    /\ svc.op = "set_hold"
    /\ svc.args.cool_hold_temp = Absent /\ svc.args.heat_hold_temp = Absent
    /\ svc.args.hold_climate_ref = StrV("away")
    /\ svc.args.hold_type \in {"indefinite", "nextTransition"}
    /\ svc.args.start_date_time = NoneV /\ svc.args.end_date_time = NoneV
    /\ svc.args.hold_hours = NoneV
    => /\ ~Raises(svc.out, {"TypeError", "ValueError"})
       /\ Len(sent) = 1 /\ Len(sent[1].dictionary.functions) = 1
       /\ \A f \in SentFunctions :
             /\ f.type = "setHold"
             /\ {"holdClimateRef", "holdType"} \subseteq DOMAIN f.params
             /\ DOMAIN f.params \cap {"coolHoldTemp", "heatHoldTemp"} = {}

\* the call is one of the three hold methods and binds its parameters
HoldCall ==
    /\ svc.op \in {"set_hold", "set_occupied", "control_plug"}
    /\ svc.op = "set_hold" => svc.args.cool_hold_temp # Absent /\ svc.args.heat_hold_temp # Absent

\* C19: every function set_hold, set_occupied or control_plug sends with
\* holdType 'holdHours' has a holdHours param and every one sent with
\* holdType 'dateTime' has endDate and endTime; a call with hold type
\* HOLD_HOURS and no hold_hours, or DATE_TIME and no end_date_time, raises
\* ValueError and sends nothing.
HoldTypeComplete ==
    HoldCall =>
        /\ \A f \in SentFunctions :
              /\ f.params["holdType"] = StrV("holdHours") => "holdHours" \in DOMAIN f.params
              /\ f.params["holdType"] = StrV("dateTime")
                    => {"endDate", "endTime"} \subseteq DOMAIN f.params
        /\ \/ svc.args.hold_type = "holdHours" /\ svc.args.hold_hours = NoneV
           \/ svc.args.hold_type = "dateTime" /\ svc.args.end_date_time = NoneV
           => Raises(svc.out, {"ValueError"}) /\ sent = <<>>

\* a temperature argument that is None or inside the limits
CoolOk(t) == t = NoneV \/ (MINIMUM_COOLING_TEMPERATURE <= t.v /\ t.v <= MAXIMUM_COOLING_TEMPERATURE)
HeatOk(t) == t = NoneV \/ (MINIMUM_HEATING_TEMPERATURE <= t.v /\ t.v <= MAXIMUM_HEATING_TEMPERATURE)

\* C20: set_hold raises ValueError when hold_climate_ref is None and
\* cool_hold_temp or heat_hold_temp is None, and when hold_climate_ref is
\* given it raises no ValueError on account of temperatures that are None:
\* with nothing else wrong in the arguments the request is sent.
SetHoldTargetRequirement ==
    svc.op = "set_hold" /\ HoldCall =>
        LET ref == Default(svc.args.hold_climate_ref, NoneV)
            cool == svc.args.cool_hold_temp
            heat == svc.args.heat_hold_temp
        IN  /\ ref = NoneV /\ (cool = NoneV \/ heat = NoneV)
                => Raises(svc.out, {"ValueError"}) /\ sent = <<>>
            /\ /\ ref # NoneV
               /\ CoolOk(cool) /\ HeatOk(heat)
               /\ ~HoldError(svc.args.start_date_time, svc.args.end_date_time,
                             svc.args.hold_type, svc.args.hold_hours)
               => ~Raises(svc.out, {"ValueError"}) /\ Len(sent) = 1

SetHoldTargetRequirementWitness ==
    /\ svc.op = "set_hold"
    /\ svc.args.hold_climate_ref = StrV("away")
    /\ svc.args.cool_hold_temp = NoneV /\ svc.args.heat_hold_temp = IntV(72)
    /\ Len(sent) = 1 /\ svc.out.k = "obj"
    /\ "holdClimateRef" \in DOMAIN sent[1].dictionary.functions[1].params

\* the 'functions' list of the body the last method sent, empty when the
\* body has none
SentFunctionList ==
    IF "functions" \in DOMAIN sent[1].dictionary THEN sent[1].dictionary.functions.v ELSE <<>>

\* the functions argument of the last call as a sequence, None being no
\* function
GivenFunctions == IF svc.args.functions = NoneV THEN <<>> ELSE svc.args.functions.v

\* C21: the request body of update_thermostats lists the encodings of the
\* functions argument in the order and multiplicity of the argument: as many
\* entries as the argument has members, the i-th entry having the type and
\* the params of the i-th member.
FunctionOrder ==
    svc.op = "update_thermostats" /\ Len(sent) = 1 =>
        /\ Len(SentFunctionList) = Len(GivenFunctions)
        /\ \A i \in 1..Len(GivenFunctions) :
              /\ Get(SentFunctionList[i], "type") = SlotOf(GivenFunctions[i], "_type")
              /\ IF SlotOf(GivenFunctions[i], "_params") = NoneV
                 THEN "params" \notin Keys(SentFunctionList[i])
                 ELSE Get(SentFunctionList[i], "params") = SlotOf(GivenFunctions[i], "_params")

\* three functions, the first of them twice, were sent and the server answered
FunctionOrderWitness ==
    /\ svc.op = "update_thermostats" /\ Len(sent) = 1 /\ svc.out.k = "obj"
    /\ Len(GivenFunctions) = MaxFunctions
    /\ GivenFunctions[1] = GivenFunctions[3] /\ GivenFunctions[1] # GivenFunctions[2]
    /\ Len(SentFunctionList) = MaxFunctions

\* the generated expression of the first call, parsed
GeneratedExpression == ParseExpr(calls[1].rp[Root].out, 1)

\* the constructor calls of the eval of the first call
Constructed == Constructions(GeneratedExpression.ast, <<>>)

\* the expression at path p is a proper part of the expression at path q
Within(p, q) == Len(p) > Len(q) /\ SubSeq(p, 1, Len(q)) = q

responses_py ==
    [EcobeeStatusResponse |->
     [bases |-> <<"EcobeeObject">>,
      slots |-> <<"_status">>,
      attribute_name_map |->
        ("status" :> "status"),
      attribute_type_map |->
        ("status" :> "Status")],
     EcobeeAuthorizeResponse |->
     [bases |-> <<"EcobeeObject">>,
      slots |-> <<"_ecobee_pin", "_code", "_scope", "_expires_in", "_interval">>,
      attribute_name_map |->
        ("ecobee_pin" :> "ecobeePin" @@
         "ecobeePin" :> "ecobee_pin" @@
         "code" :> "code" @@
         "scope" :> "scope" @@
         "expires_in" :> "expires_in" @@
         "interval" :> "interval"),
      attribute_type_map |->
        ("ecobee_pin" :> "six.text_type" @@
         "code" :> "six.text_type" @@
         "scope" :> "six.text_type" @@
         "expires_in" :> "int" @@
         "interval" :> "int")],
     EcobeeCreateRuntimeReportJobResponse |->
     [bases |-> <<"EcobeeStatusResponse">>,
      slots |-> <<"_job_id", "_job_status">>,
      attribute_name_map |->
        ("job_id" :> "jobId" @@
         "jobId" :> "job_id" @@
         "job_status" :> "jobStatus" @@
         "jobStatus" :> "job_status" @@
         "status" :> "status"),
      attribute_type_map |->
        ("job_id" :> "six.text_type" @@
         "job_status" :> "six.text_type" @@
         "status" :> "Status")],
     EcobeeErrorResponse |->
     [bases |-> <<"EcobeeObject">>,
      slots |-> <<"_error", "_error_description", "_error_uri">>,
      attribute_name_map |->
        ("error" :> "error" @@
         "error_description" :> "error_description" @@
         "error_uri" :> "error_uri"),
      attribute_type_map |->
        ("error" :> "six.text_type" @@
         "error_description" :> "six.text_type" @@
         "error_uri" :> "six.text_type")],
     EcobeeGroupsResponse |->
     [bases |-> <<"EcobeeStatusResponse">>,
      slots |-> <<"_groups">>,
      attribute_name_map |->
        ("groups" :> "groups" @@
         "status" :> "status"),
      attribute_type_map |->
        ("groups" :> "List[Group]" @@
         "status" :> "Status")],
     EcobeeIssueDemandResponsesResponse |->
     [bases |-> <<"EcobeeStatusResponse">>,
      slots |-> <<"_demand_response_ref">>,
      attribute_name_map |->
        ("demand_response_ref" :> "demandResponseRef" @@
         "demandResponseRef" :> "demand_response_ref" @@
         "status" :> "status"),
      attribute_type_map |->
        ("demand_response_ref" :> "six.text_type" @@
         "status" :> "Status")],
     EcobeeListDemandResponsesResponse |->
     [bases |-> <<"EcobeeStatusResponse">>,
      slots |-> <<"_demand_response_list">>,
      attribute_name_map |->
        ("demand_response_list" :> "drList" @@
         "drList" :> "demand_response_list" @@
         "status" :> "status"),
      attribute_type_map |->
        ("demand_response_list" :> "List[DemandResponse]" @@
         "status" :> "Status")],
     EcobeeListHierarchySetsResponse |->
     [bases |-> <<"EcobeeStatusResponse">>,
      slots |-> <<"_sets">>,
      attribute_name_map |->
        ("sets" :> "sets" @@
         "status" :> "status"),
      attribute_type_map |->
        ("sets" :> "List[HierarchySet]" @@
         "status" :> "Status")],
     EcobeeListHierarchyUsersResponse |->
     [bases |-> <<"EcobeeStatusResponse">>,
      slots |-> <<"_users", "_privileges">>,
      attribute_name_map |->
        ("users" :> "users" @@
         "privileges" :> "privileges" @@
         "status" :> "status"),
      attribute_type_map |->
        ("users" :> "List[HierarchyUser]" @@
         "privileges" :> "List[HierarchyPrivilege]" @@
         "status" :> "Status")],
     EcobeeListRuntimeReportJobStatusResponse |->
     [bases |-> <<"EcobeeStatusResponse">>,
      slots |-> <<"_jobs">>,
      attribute_name_map |->
        ("jobs" :> "jobs" @@
         "status" :> "status"),
      attribute_type_map |->
        ("jobs" :> "List[ReportJob]" @@
         "status" :> "Status")],
     EcobeeMeterReportsResponse |->
     [bases |-> <<"EcobeeStatusResponse">>,
      slots |-> <<"_report_list">>,
      attribute_name_map |->
        ("report_list" :> "reportList" @@
         "reportList" :> "report_list" @@
         "status" :> "status"),
      attribute_type_map |->
        ("report_list" :> "List[MeterReport]" @@
         "status" :> "Status")],
     EcobeeRuntimeReportsResponse |->
     [bases |-> <<"EcobeeStatusResponse">>,
      slots |-> <<"_start_date", "_start_interval", "_end_date", "_end_interval", "_columns", "_report_list", "_sensor_list">>,
      attribute_name_map |->
        ("start_date" :> "startDate" @@
         "startDate" :> "start_date" @@
         "start_interval" :> "startInterval" @@
         "startInterval" :> "start_interval" @@
         "end_date" :> "endDate" @@
         "endDate" :> "end_date" @@
         "end_interval" :> "endInterval" @@
         "endInterval" :> "end_interval" @@
         "columns" :> "columns" @@
         "report_list" :> "reportList" @@
         "reportList" :> "report_list" @@
         "sensor_list" :> "sensorList" @@
         "sensorList" :> "sensor_list" @@
         "status" :> "status"),
      attribute_type_map |->
        ("start_date" :> "six.text_type" @@
         "start_interval" :> "int" @@
         "end_date" :> "six.text_type" @@
         "end_interval" :> "int" @@
         "columns" :> "six.text_type" @@
         "report_list" :> "List[RuntimeReport]" @@
         "sensor_list" :> "List[RuntimeSensorReport]" @@
         "status" :> "Status")],
     EcobeeThermostatResponse |->
     [bases |-> <<"EcobeeStatusResponse">>,
      slots |-> <<"_page", "_thermostat_list">>,
      attribute_name_map |->
        ("page" :> "page" @@
         "thermostat_list" :> "thermostatList" @@
         "thermostatList" :> "thermostat_list" @@
         "status" :> "status"),
      attribute_type_map |->
        ("page" :> "Page" @@
         "thermostat_list" :> "List[Thermostat]" @@
         "status" :> "Status")],
     EcobeeThermostatsSummaryResponse |->
     [bases |-> <<"EcobeeStatusResponse">>,
      slots |-> <<"_revision_list", "_thermostat_count", "_status_list">>,
      attribute_name_map |->
        ("revision_list" :> "revisionList" @@
         "revisionList" :> "revision_list" @@
         "thermostat_count" :> "thermostatCount" @@
         "thermostatCount" :> "thermostat_count" @@
         "status_list" :> "statusList" @@
         "statusList" :> "status_list" @@
         "status" :> "status"),
      attribute_type_map |->
        ("revision_list" :> "List[six.text_type]" @@
         "thermostat_count" :> "int" @@
         "status_list" :> "List[six.text_type]" @@
         "status" :> "Status")],
     EcobeeTokensResponse |->
     [bases |-> <<"EcobeeObject">>,
      slots |-> <<"_access_token", "_token_type", "_expires_in", "_refresh_token", "_scope">>,
      attribute_name_map |->
        ("access_token" :> "access_token" @@
         "token_type" :> "token_type" @@
         "expires_in" :> "expires_in" @@
         "refresh_token" :> "refresh_token" @@
         "scope" :> "scope"),
      attribute_type_map |->
        ("access_token" :> "six.text_type" @@
         "token_type" :> "six.text_type" @@
         "expires_in" :> "int" @@
         "refresh_token" :> "six.text_type" @@
         "scope" :> "six.text_type")]]

\* the classes of pyecobee/response.py: __slots__, attribute_name_map and attribute_type_map as
\* written in the class bodies
response_py ==
    [Response |->
     [bases |-> <<>>,
      slots |-> <<>>,
      attribute_name_map |->
        <<>>,
      attribute_type_map |->
        <<>>],
     AuthorizeResponse |->
     [bases |-> <<"Response">>,
      slots |-> <<"_ecobee_pin", "_code", "_scope", "_expires_in", "_interval">>,
      attribute_name_map |->
        ("ecobee_pin" :> "ecobeePin" @@
         "ecobeePin" :> "ecobee_pin" @@
         "code" :> "code" @@
         "scope" :> "scope" @@
         "expires_in" :> "expires_in" @@
         "interval" :> "interval"),
      attribute_type_map |->
        ("ecobee_pin" :> "six.text_type" @@
         "code" :> "six.text_type" @@
         "scope" :> "six.text_type" @@
         "expires_in" :> "int" @@
         "interval" :> "int")],
     ErrorResponse |->
     [bases |-> <<"Response">>,
      slots |-> <<"_error", "_error_description", "_error_uri">>,
      attribute_name_map |->
        ("error" :> "error" @@
         "error_description" :> "error_description" @@
         "error_uri" :> "error_uri"),
      attribute_type_map |->
        ("error" :> "six.text_type" @@
         "error_description" :> "six.text_type" @@
         "error_uri" :> "six.text_type")],
     MeterReportResponse |->
     [bases |-> <<"Response">>,
      slots |-> <<"_report_list", "_status">>,
      attribute_name_map |->
        ("report_list" :> "reportList" @@
         "reportList" :> "report_list" @@
         "status" :> "status"),
      attribute_type_map |->
        ("report_list" :> "List[MeterReport]" @@
         "status" :> "Status")],
     RuntimeReportResponse |->
     [bases |-> <<"Response">>,
      slots |-> <<"_start_date", "_start_interval", "_end_date", "_end_interval", "_columns", "_report_list", "_sensor_list", "_status">>,
      attribute_name_map |->
        ("start_date" :> "startDate" @@
         "startDate" :> "start_date" @@
         "start_interval" :> "startInterval" @@
         "startInterval" :> "start_interval" @@
         "end_date" :> "endDate" @@
         "endDate" :> "end_date" @@
         "end_interval" :> "endInterval" @@
         "endInterval" :> "end_interval" @@
         "columns" :> "columns" @@
         "report_list" :> "reportList" @@
         "reportList" :> "report_list" @@
         "sensor_list" :> "sensorList" @@
         "sensorList" :> "sensor_list" @@
         "status" :> "status"),
      attribute_type_map |->
        ("start_date" :> "six.text_type" @@
         "start_interval" :> "int" @@
         "end_date" :> "six.text_type" @@
         "end_interval" :> "int" @@
         "columns" :> "six.text_type" @@
         "report_list" :> "List[RuntimeReport]" @@
         "sensor_list" :> "List[RuntimeSensorReport]" @@
         "status" :> "Status")],
     ThermostatResponse |->
     [bases |-> <<"Response">>,
      slots |-> <<"_page", "_thermostat_list", "_status">>,
      attribute_name_map |->
        ("page" :> "page" @@
         "thermostat_list" :> "thermostatList" @@
         "thermostatList" :> "thermostat_list" @@
         "status" :> "status"),
      attribute_type_map |->
        ("page" :> "Page" @@
         "thermostat_list" :> "List[Thermostat]" @@
         "status" :> "Status")],
     ThermostatSummaryResponse |->
     [bases |-> <<"Response">>,
      slots |-> <<"_revision_list", "_thermostat_count", "_status_list", "_status">>,
      attribute_name_map |->
        ("revision_list" :> "revisionList" @@
         "revisionList" :> "revision_list" @@
         "thermostat_count" :> "thermostatCount" @@
         "thermostatCount" :> "thermostat_count" @@
         "status_list" :> "statusList" @@
         "statusList" :> "status_list" @@
         "status" :> "status"),
      attribute_type_map |->
        ("revision_list" :> "List[six.text_type]" @@
         "thermostat_count" :> "int" @@
         "status_list" :> "List[six.text_type]" @@
         "status" :> "Status")],
     TokensResponse |->
     [bases |-> <<"Response">>,
      slots |-> <<"_access_token", "_token_type", "_expires_in", "_refresh_token", "_scope">>,
      attribute_name_map |->
        ("access_token" :> "access_token" @@
         "token_type" :> "token_type" @@
         "expires_in" :> "expires_in" @@
         "refresh_token" :> "refresh_token" @@
         "scope" :> "scope"),
      attribute_type_map |->
        ("access_token" :> "six.text_type" @@
         "token_type" :> "six.text_type" @@
         "expires_in" :> "int" @@
         "refresh_token" :> "six.text_type" @@
         "scope" :> "six.text_type")],
     UpdateThermostatResponse |->
     [bases |-> <<"Response">>,
      slots |-> <<"_status">>,
      attribute_name_map |->
        ("status" :> "status"),
      attribute_type_map |->
        ("status" :> "Status")]]

\* the class EcobeeService of pyecobee/service.py: __slots__, attribute_name_map and attribute_type_map as
\* written in the class bodies
service_py ==
    [EcobeeService |->
     [bases |-> <<"EcobeeObject">>,
      slots |-> <<"_thermostat_name", "_application_key", "_authorization_token", "_access_token", "_refresh_token", "_access_token_expires_on", "_refresh_token_expires_on", "_scope">>,
      attribute_name_map |->
        ("thermostat_name" :> "thermostat_name" @@
         "application_key" :> "application_key" @@
         "authorization_token" :> "authorization_token" @@
         "access_token" :> "access_token" @@
         "refresh_token" :> "refresh_token" @@
         "access_token_expires_on" :> "access_token_expires_on" @@
         "refresh_token_expires_on" :> "refresh_token_expires_on" @@
         "scope" :> "scope"),
      attribute_type_map |->
        ("thermostat_name" :> "six.text_type" @@
         "application_key" :> "six.text_type" @@
         "authorization_token" :> "six.text_type" @@
         "access_token" :> "six.text_type" @@
         "refresh_token" :> "six.text_type" @@
         "access_token_expires_on" :> "datetime" @@
         "refresh_token_expires_on" :> "datetime" @@
         "scope" :> "Scope")]]

\* the classes by name
DescriptorTable == responses_py @@ response_py @@ service_py

RECURSIVE AllSlots(_)
\* the slots of a class, those of its base classes first; EcobeeObject and
\* object have none
AllSlots(cls) ==
    IF cls \notin DOMAIN DescriptorTable THEN <<>>
    ELSE LET bases == DescriptorTable[cls].bases IN
         (IF bases = <<>> THEN <<>> ELSE AllSlots(bases[1])) \o DescriptorTable[cls].slots

\* map[key], or the KeyError of a key the map does not have
LookUp(map, key) == IF key \in DOMAIN map THEN StrV(map[key]) ELSE RaiseV("KeyError", key)

\* a lookup in the maps of a class ended with out
LookedUp(op, args, out) ==
    /\ svc' = [op |-> op, args |-> args, response_class |-> "", wire |-> NoneV, out |-> out]
    /\ phase' = "returned"
    /\ sent' = <<>>
    /\ calls' = <<>>
    /\ UNCHANGED <<dflt, encoded, memo, tokens>>

\* class_.attribute_name_map[attribute_name[1:]] for a slot of an object of
\* the class
WireName ==
    /\ phase = "idle"
    /\ \E cls \in DOMAIN DescriptorTable : \E i \in 1..Len(AllSlots(cls)) :
          LookedUp("wire_name", [class |-> cls, attribute_name |-> AllSlots(cls)[i]],
                   LookUp(DescriptorTable[cls].attribute_name_map,
                          StripUnderscore(AllSlots(cls)[i])))

\* parent_classes[-1].attribute_type_map[parent_classes[-1].
\* attribute_name_map[key]] for a key of the payload
DeclaredTypeOfKey ==
    /\ phase = "idle"
    /\ \E cls \in DOMAIN DescriptorTable : \E key \in DOMAIN DescriptorTable[cls].attribute_name_map :
          LET name == LookUp(DescriptorTable[cls].attribute_name_map, key) IN
          LookedUp("declared_type", [class |-> cls, key |-> key],
                   LookUp(DescriptorTable[cls].attribute_type_map, name.v))

NextDescriptors == WireName \/ DeclaredTypeOfKey \/ Drop

SpecDescriptors == Init /\ [][NextDescriptors]_vars

\* C23: for every response class of responses.py and response.py and for
\* EcobeeService, every slot, own or inherited, with its leading underscore
\* removed is a key of attribute_name_map and of attribute_type_map, and
\* attribute_name_map is its own inverse, so the wire name of a slot is
\* always found.
DescriptorWellFormed ==
    /\ \A cls \in DOMAIN DescriptorTable :
          /\ \A i \in 1..Len(AllSlots(cls)) :
                /\ StripUnderscore(AllSlots(cls)[i]) \in DOMAIN DescriptorTable[cls].attribute_name_map
                /\ StripUnderscore(AllSlots(cls)[i]) \in DOMAIN DescriptorTable[cls].attribute_type_map
          /\ \A k \in DOMAIN DescriptorTable[cls].attribute_name_map :
                /\ DescriptorTable[cls].attribute_name_map[k] \in DOMAIN DescriptorTable[cls].attribute_name_map
                /\ DescriptorTable[cls].attribute_name_map[DescriptorTable[cls].attribute_name_map[k]] = k
    /\ svc.op = "wire_name" => svc.out.k = "str"

\* the wire name of an inherited slot was looked up
DescriptorWellFormedWitness ==
    /\ svc.op = "wire_name" /\ svc.args.class = "EcobeeCreateRuntimeReportJobResponse"
    /\ svc.args.attribute_name = "_status" /\ svc.out = StrV("status")

\* the values held directly by a dictionary or a list
Members(x) ==
    CASE x.k = "dict" -> {x.v[i][2] : i \in 1..Len(x.v)}
      [] x.k = "list" -> {x.v[i] : i \in 1..Len(x.v)}
      [] OTHER -> {}

\* data[key] and the entries of a list data[key]
Passed(data) == Members(data) \cup UNION {Members(m) : m \in {x \in Members(data) : x.k = "list"}}

\* the step from s to t of a running call leaves the argument data of every
\* activation as it was, and the data of an activation it adds is data[key]
\* or an entry of data[key] of the activation that made the call
DataKept(s, t) ==
    /\ \A k \in 1..Len(s.c.stack) : k <= Len(t.c.stack) => t.c.stack[k].data = s.c.stack[k].data
    /\ Len(t.c.stack) <= Len(s.c.stack) + 1
    /\ Len(t.c.stack) = Len(s.c.stack) + 1 =>
          t.c.stack[Len(t.c.stack)].data \in Passed(s.c.stack[Len(s.c.stack)].data)

RECURSIVE PayloadKept(_)
\* every statement group of the call run from s leaves the payload and its
\* parts as they were
PayloadKept(s) == s.c.done \/ (LET t == Step(s) IN DataKept(s, t) /\ PayloadKept(t))

\* C24: dictionary_to_object leaves the payload passed to it unchanged, in
\* every statement group of the call and at its end, and object_to_dictionary
\* leaves the object graph it encodes unchanged; the attribute maps of the
\* classes and _class_name_map are never written.
Purity ==
    /\ [][phase = "idle" /\ phase' = "decoded" =>
            /\ PayloadKept([c |-> CallOf(InputOf(calls'[1])), d |-> dflt])
            /\ Run([c |-> CallOf(InputOf(calls'[1])), d |-> dflt]).c = calls'[1]]_vars
    /\ [][phase = "decoded" /\ phase' = "encoded" =>
            /\ calls' = calls
            /\ encoded' = ObjectToDictionary(calls[1].result, calls[1].result.c)]_vars

\* a thermostat with a remote sensor was decoded and encoded again
PurityWitness ==
    /\ phase = "encoded" /\ Result.c = "Thermostat"
    /\ SlotOf(Result, "_remote_sensors").k = "list"
    /\ Len(SlotOf(Result, "_remote_sensors").v) > 0
    /\ SlotOf(Result, "_remote_sensors").v[1].k = "obj"

\* ---- tokens
TokenMethods == {"authorize", "request_tokens", "refresh_tokens"}

\* the step is a call of one of the methods ops, from its first statement to
\* its return or its exception
Called(ops) == phase = "idle" /\ phase' = "returned" /\ svc'.op \in ops

\* C26 (token expiry bookkeeping): when request_tokens or refresh_tokens
\* returns, access_token and refresh_token are the values of the response,
\* access_token_expires_on is the time read before the request plus
\* expires_in seconds and refresh_token_expires_on that time plus 365 days,
\* so that the stored expiry of the access token is not later than the
\* arrival of the response plus expires_in.
TokenExpiryBookkeeping ==
    [][Called({"request_tokens", "refresh_tokens"}) /\ svc'.out.k = "obj" =>
         /\ self'.access_token = Get(svc'.wire.body, "access_token")
         /\ self'.refresh_token = Get(svc'.wire.body, "refresh_token")
         /\ self'.access_token_expires_on =
                Instant(clock.now + Get(svc'.wire.body, "expires_in").v)
         /\ self'.refresh_token_expires_on = Instant(clock.now + RefreshTokenLifetime)
         /\ self'.access_token_expires_on.v
                <= clock'.now + Get(svc'.wire.body, "expires_in").v]_vars

\* refresh_tokens returned after a request that took time, and replaced the
\* tokens and expiries of an earlier request_tokens
TokenExpiryBookkeepingWitness ==
    /\ phase = "returned" /\ svc.op = "refresh_tokens" /\ svc.out.k = "obj"
    /\ self.access_token = StrV("x") /\ self.refresh_token = StrV("a")
    /\ self.access_token_expires_on.v < clock.now + Get(svc.wire.body, "expires_in").v
    /\ self.refresh_token_expires_on.v > RefreshTokenLifetime

Maintained == main.pc = "done"

\* C25 (token maintenance sequence), as stated: when the driver's sequence
\* has run with every call succeeding, access_token and refresh_token are
\* set and both expiries are later than the time of the expiry check.
TokenMaintenanceSequence ==
    Maintained =>
        /\ Truthy(self.access_token) /\ Truthy(self.refresh_token)
        /\ self.access_token_expires_on.v > main.now_utc
        /\ self.refresh_token_expires_on.v > main.now_utc

\* C25, amended: when the driver's sequence has run with every call
\* succeeding, access_token and refresh_token are set and neither expiry is
\* earlier than the time of the expiry check; an expiry equal to that time
\* is left as it is.
TokenMaintenanceNotEarlier ==
    Maintained =>
        /\ Truthy(self.access_token) /\ Truthy(self.refresh_token)
        /\ self.access_token_expires_on.v >= main.now_utc
        /\ self.refresh_token_expires_on.v >= main.now_utc

\* the refresh token had expired: the driver authorized and requested tokens
\* again, and the new tokens are on the shelf
TokenMaintenanceWitness ==
    /\ Maintained /\ phase = "returned" /\ svc.op = "request_tokens"
    /\ main.now_utc > RefreshTokenLifetime
    /\ main.shelf = self
    /\ self.refresh_token_expires_on.v > main.now_utc

====
